---- MODULE Spec2Model ----
(***************************************************************************)
(* FMT - Filament Management Tool (src/index.tsx).                         *)
(*                                                                         *)
(* A model of the identity allocator (generateNewIdAndUpdateCounters), of  *)
(* the schema migration (migrateData) and of the App component's state     *)
(* and handlers.                                                           *)
(*                                                                         *)
(* Conventions                                                             *)
(*  - A JavaScript string is a TLA+ string; characters are reached with    *)
(*    Len, Head, Tail, SubSeq and \o.                                      *)
(*  - A JavaScript object is a function from its keys to its values. A key *)
(*    that is missing, or whose value is undefined, is not in the DOMAIN   *)
(*    (JSON.stringify drops such keys, and the code reads them only with   *)
(*    `=== undefined`, `||`, `??` and `!`).                                *)
(*  - An array is a sequence.                                              *)
(***************************************************************************)
EXTENDS Integers, Sequences, FiniteSets, TLC

VARIABLES
  \* ---- App component state (src/index.tsx 1295-1305) and localStorage
  appStatus, filaments, storageTree, printers, idCounters, mode,
  currentFilamentId, hasUnsavedChanges, isDirty, locationFilter, app_data,
  \* ---- history of the App: the ids handed out by saveFilament in order of
  \*      issue, the id last given to each item (items are told apart by
  \*      their notes), and the number of allocator calls of saveFilament
  everIssued, printedLabel, nAlloc,
  \* ---- a caller threading counters through generateNewIdAndUpdateCounters
  counters, returned, twin, call,
  \* ---- a caller of migrateData
  rawData, once, twice,
  \* ---- StorageManager component state (907-908) while it is mounted, and
  \*      the last edit made in it: its kind, its arguments and the tree
  \*      it found
  tree, op

appVars   == <<appStatus, filaments, storageTree, printers, idCounters, mode,
               currentFilamentId, hasUnsavedChanges, isDirty, locationFilter,
               app_data, everIssued, printedLabel, nAlloc>>
allocVars == <<counters, returned, twin, call>>
migVars   == <<rawData, once, twice>>
mgrVars   == <<tree, op>>
vars      == <<appVars, allocVars, migVars, mgrVars>>

(***************************************************************************)
(* Bounds                                                                  *)
(***************************************************************************)
MaxCalls == 3      \* allocator calls of the threading caller
MaxAlloc == 3      \* allocator calls made by saveFilament in one run
MaxItems == 2      \* length of the filament list

(***************************************************************************)
(* JavaScript values                                                       *)
(***************************************************************************)
Undefined == "undefined"
Null      == "null"
EmptyObject == <<>>

Has(o, k) == k \in DOMAIN o
Put(o, k, v) == [x \in (DOMAIN o) \cup {k} |-> IF x = k THEN v ELSE o[x]]
Del(o, k) == [x \in (DOMAIN o) \ {k} |-> o[x]]
\* { ...a, ...b }
Spread(a, b) == [x \in (DOMAIN a) \cup (DOMAIN b) |-> IF x \in DOMAIN b THEN b[x] ELSE a[x]]
\* o.k || d  for a string-valued k
StrOr(o, k, d) == IF Has(o, k) /\ o[k] # "" THEN o[k] ELSE d

Max(a, b) == IF a >= b THEN a ELSE b

(***************************************************************************)
(* Strings                                                                 *)
(***************************************************************************)
Digits       == "0123456789"
UpperLetters == "ABCDEFGHIJKLMNOPQRSTUVWXYZ"
LowerLetters == "abcdefghijklmnopqrstuvwxyz"

CharAt(s, i) == SubSeq(s, i, i)
InStr(c, s)  == \E i \in 1..Len(s) : CharAt(s, i) = c
IndexIn(c, s) == CHOOSE i \in 1..Len(s) : CharAt(s, i) = c

\* String.prototype.toUpperCase on ASCII text
UpperChar(c) == IF InStr(c, LowerLetters) THEN CharAt(UpperLetters, IndexIn(c, LowerLetters)) ELSE c
RECURSIVE toUpperCase(_)
toUpperCase(s) == IF s = "" THEN "" ELSE UpperChar(Head(s)) \o toUpperCase(Tail(s))

\* s.replace(/[^A-Z\d]/g, '')
IsAZ09(c) == InStr(c, UpperLetters) \/ InStr(c, Digits)
RECURSIVE replaceNonAZ09(_)
replaceNonAZ09(s) ==
  IF s = "" THEN ""
  ELSE (IF IsAZ09(Head(s)) THEN Head(s) ELSE "") \o replaceNonAZ09(Tail(s))

\* s.substring(0, n)
substring0(s, n) == SubSeq(s, 1, IF Len(s) < n THEN Len(s) ELSE n)

\* Number.prototype.toString() of a non-negative integer
RECURSIVE toString(_)
toString(n) == IF n < 10 THEN CharAt(Digits, n + 1)
               ELSE toString(n \div 10) \o CharAt(Digits, (n % 10) + 1)

\* s.padStart(w, '0')
RECURSIVE padStart(_, _)
padStart(s, w) == IF Len(s) >= w THEN s ELSE padStart("0" \o s, w)

\* parseInt(s): the value of the longest prefix of decimal digits, NaN when
\* there is none (ids carry neither sign nor leading blanks)
NaN == -1
RECURSIVE DigitPrefix(_)
DigitPrefix(s) == IF s = "" \/ ~InStr(Head(s), Digits) THEN ""
                  ELSE Head(s) \o DigitPrefix(Tail(s))
RECURSIVE DigitsValue(_)
DigitsValue(s) == IF s = "" THEN 0
                  ELSE 10 * DigitsValue(SubSeq(s, 1, Len(s) - 1))
                       + (IndexIn(CharAt(s, Len(s)), Digits) - 1)
parseInt(s) == IF DigitPrefix(s) = "" THEN NaN ELSE DigitsValue(DigitPrefix(s))
\* Math.max(a, b) and a + 1 with NaN
MathMax(a, b) == IF a = NaN \/ b = NaN THEN NaN ELSE Max(a, b)
PlusOne(a) == IF a = NaN THEN NaN ELSE a + 1

\* s.split('-')
RECURSIVE split(_, _)
split(s, sep) ==
  IF ~InStr(sep, s) THEN <<s>>
  ELSE LET i == CHOOSE j \in 1..Len(s) :
                  CharAt(s, j) = sep /\ \A k \in 1..(j-1) : CharAt(s, k) # sep
       IN <<SubSeq(s, 1, i - 1)>> \o split(SubSeq(s, i + 1, Len(s)), sep)

\* a.localeCompare(b) < 0, on text of '-', digits and upper-case letters,
\* where the collation order is the order of CollationOrder
CollationOrder == " -" \o Digits \o UpperLetters
Rank(c) == IndexIn(c, CollationOrder)
RECURSIVE localeLess(_, _)
localeLess(a, b) ==
  IF b = "" THEN FALSE
  ELSE IF a = "" THEN TRUE
  ELSE IF Head(a) = Head(b) THEN localeLess(Tail(a), Tail(b))
  ELSE Rank(Head(a)) < Rank(Head(b))

(***************************************************************************)
(* generateNewIdAndUpdateCounters (src/index.tsx 109-135)                  *)
(*                                                                         *)
(* A counters object has the optional keys colorMap (label -> code),       *)
(* nextColorNum, typeCounters (type code -> [nextSpoolNum]) and version.   *)
(***************************************************************************)
\* line 110: (typeStr || 'UNK').toUpperCase().replace(/[^A-Z\d]/g, '').substring(0, 4)
typeCode(typeStr) ==
  substring0(replaceNonAZ09(toUpperCase(IF typeStr = "" THEN "UNK" ELSE typeStr)), 4)

\* line 111: mfgColorStr || 'Unknown'
mfgColorOf(mfgColorStr) == IF mfgColorStr = "" THEN "Unknown" ELSE mfgColorStr

\* lines 126, 131: the key under which colorMap is read and written
colorMapKeyWithType(type, mfgColor) == type \o ":" \o mfgColor
colorMapKey(type, mfgColor) == mfgColor

\* line 127: (nextColorNum++).toString().padStart(3, '0')
colorCodeOf(n) == padStart(toString(n), 3)

\* line 130: the value left in nextSpoolNum by nextSpoolNum++
spoolNumNotIncremented(n) == n
spoolNumIncremented(n) == n + 1

\* line 130: (nextSpoolNum++).toString().padStart(4, '0')
spoolNumOfWidth3(n) == padStart(toString(n), 3)
spoolNumOf(n) == padStart(toString(n), 4)

\* !o[k] for a string-valued entry of o
Falsy(o, k) == ~Has(o, k) \/ o[k] = ""

\* 113: countersCopy = JSON.parse(JSON.stringify(currentCounters)); the
\* steps below take the copy and give the copy after the statement
\* 115-118
colorMapEnsured(countersCopy) ==
  IF ~Has(countersCopy, "colorMap")
  THEN Put(Put(countersCopy, "colorMap", EmptyObject), "nextColorNum", 1)
  ELSE countersCopy
\* 119-121
typeCountersEnsured(countersCopy) ==
  IF ~Has(countersCopy, "typeCounters")
  THEN Put(countersCopy, "typeCounters", EmptyObject)
  ELSE countersCopy
\* 122-124
typeEntryEnsured(countersCopy, type) ==
  IF ~Has(countersCopy.typeCounters, type)
  THEN Put(countersCopy, "typeCounters",
           Put(countersCopy.typeCounters, type, [nextSpoolNum |-> 1]))
  ELSE countersCopy
\* 127: the value left in nextColorNum by nextColorNum++
colorNumNotIncremented(n) == n
colorNumIncremented(n) == n + 1

\* 126-128
colorCodeEnsured(countersCopy, key) ==
  IF Falsy(countersCopy.colorMap, key)
  THEN Put(Put(countersCopy, "colorMap",
               Put(countersCopy.colorMap, key, colorCodeOf(countersCopy.nextColorNum))),
           "nextColorNum", colorNumIncremented(countersCopy.nextColorNum))
  ELSE countersCopy
\* 130: the copy after nextSpoolNum++
spoolNumTaken(countersCopy, type) ==
  Put(countersCopy, "typeCounters",
      Put(countersCopy.typeCounters, type,
          [nextSpoolNum |-> spoolNumIncremented(countersCopy.typeCounters[type].nextSpoolNum)]))
\* 130-134
idAndCounters(countersCopy, type, key) ==
  [newId |-> type \o "-" \o spoolNumOf(countersCopy.typeCounters[type].nextSpoolNum)
                  \o "-" \o spoolNumTaken(countersCopy, type).colorMap[key],
   updatedCounters |-> spoolNumTaken(countersCopy, type)]

\* 113-134, for the type code and the colorMap key of lines 110-111
allocateFor(type, key, currentCounters) ==
  idAndCounters(
    colorCodeEnsured(
      typeEntryEnsured(typeCountersEnsured(colorMapEnsured(currentCounters)), type),
      key),
    type, key)

generateNewIdAndUpdateCounters(typeStr, mfgColorStr, currentCounters) ==
  allocateFor(typeCode(typeStr),
              colorMapKey(typeCode(typeStr), mfgColorOf(mfgColorStr)),
              currentCounters)

\* The caller's object after the call: line 113 makes every write of the
\* function land in a deep copy, so the argument keeps its value.
argumentAliased(typeStr, mfgColorStr, currentCounters) ==
  generateNewIdAndUpdateCounters(typeStr, mfgColorStr, currentCounters).updatedCounters
argumentAfterCall(typeStr, mfgColorStr, currentCounters) == currentCounters

(***************************************************************************)
(* calculateLength (src/index.tsx 91-107)                                  *)
(*                                                                         *)
(* Weights are grams, densities are hundredths of g/cm3, diameters are     *)
(* hundredths of a millimetre, and the length is returned in centimetres   *)
(* (the code's metres with two decimals, line 187), truncated, with pi     *)
(* taken as 355/113.                                                       *)
(***************************************************************************)
DENSITIES == <<[k |-> "pla", d |-> 124], [k |-> "abs", d |-> 104], [k |-> "petg", d |-> 127],
               [k |-> "nylon", d |-> 115], [k |-> "tpu", d |-> 121], [k |-> "pc", d |-> 120],
               [k |-> "asa", d |-> 107], [k |-> "hips", d |-> 104]>>

LowerChar(c) == IF InStr(c, UpperLetters) THEN CharAt(LowerLetters, IndexIn(c, UpperLetters)) ELSE c
RECURSIVE toLowerCase(_)
toLowerCase(s) == IF s = "" THEN "" ELSE LowerChar(Head(s)) \o toLowerCase(Tail(s))

\* s.includes(sub)
includes(s, sub) ==
  \E i \in 1..(Len(s) - Len(sub) + 1) : SubSeq(s, i, i + Len(sub) - 1) = sub

calculateLength(filamentWeight, diameter, type) ==
  IF filamentWeight <= 0 \/ diameter = 0 THEN 0
  ELSE LET typeKey == toLowerCase(type)
           hits    == {i \in 1..Len(DENSITIES) : includes(typeKey, DENSITIES[i].k)}
           density == IF hits = {} THEN DENSITIES[1].d
                      ELSE DENSITIES[CHOOSE i \in hits : \A j \in hits : i <= j].d
           volumeInMm3   == (filamentWeight * 100000) \div density
           areaIn1e4Mm2  == (diameter * diameter * 355) \div (113 * 4)
       IN (volumeInMm3 * 1000) \div areaIn1e4Mm2

(***************************************************************************)
(* migrateData (src/index.tsx 159-236)                                     *)
(*                                                                         *)
(* data is the parsed bundle: an object with the optional keys filaments,  *)
(* storageTree, idCounters and printers.  seed stands for the randomness   *)
(* of crypto.randomUUID() during one call.                                 *)
(***************************************************************************)
DefaultFilamentDiameter == 175

\* 160-163: data.k || dflt
OrElse(o, k, dflt) == IF Has(o, k) THEN o[k] ELSE dflt

\* 164: data?.idCounters?.version || 1
dataVersionOf(data) ==
  IF Has(data, "idCounters") /\ Has(data.idCounters, "version") /\ data.idCounters.version # 0
  THEN data.idCounters.version ELSE 1

\* 169: crypto.randomUUID(), for the i-th printer of the list
randomUUID(seed, i) == seed \o toString(i)

\* 167-171
migratePrinter(p, fresh) ==
  LET withId == IF Has(p, "id") /\ p.id # "" THEN p ELSE Put(p, "id", fresh)
  IN IF Has(withId, "filamentDiameter") THEN withId
     ELSE Put(withId, "filamentDiameter", DefaultFilamentDiameter)

\* 174
needsLegacyMigration(rawFilaments) ==
  /\ Len(rawFilaments) > 0
  /\ \E i \in 1..Len(rawFilaments) :
       ~Has(rawFilaments[i], "locationPath") \/ ~Has(rawFilaments[i], "spoolLength")

\* [a, b, c].filter(Boolean).join(' / ')
RECURSIVE join(_, _)
join(parts, sep) ==
  IF parts = <<>> THEN ""
  ELSE IF Len(parts) = 1 THEN parts[1]
  ELSE parts[1] \o sep \o join(Tail(parts), sep)
truthyParts(f, keys) ==
  LET RECURSIVE pick(_)
      pick(ks) == IF ks = <<>> THEN <<>>
                  ELSE (IF Has(f, Head(ks)) /\ f[Head(ks)] # "" THEN <<f[Head(ks)]>> ELSE <<>>)
                       \o pick(Tail(ks))
  IN pick(keys)

\* n || d for a number
NumOr(o, k, d) == IF Has(o, k) /\ o[k] # 0 /\ o[k] # NaN THEN o[k] ELSE d
\* a + b where an operand may be undefined (NaN)
Plus(o, a, b) == IF Has(o, a) /\ Has(o, b) /\ o[a] # NaN /\ o[b] # NaN THEN o[a] + o[b] ELSE NaN

\* 180-184
netWeightKept(newF) == newF
netWeightRenamed(newF) ==
  IF Has(newF, "netWeight")
  THEN Del(Put(Put(newF, "spoolSize", newF.netWeight),
               "totalWeight", IF Has(newF, "totalWeight") THEN newF.totalWeight
                              ELSE Plus(newF, "netWeight", "spoolWeight")),
           "netWeight")
  ELSE newF
\* 185-188
spoolLengthAdded(newF) ==
  IF ~Has(newF, "spoolLength")
  THEN Put(newF, "spoolLength",
           calculateLength(NumOr(newF, "spoolSize", 1000),
                           NumOr(newF, "diameter", DefaultFilamentDiameter),
                           StrOr(newF, "type", "pla")))
  ELSE newF
\* 189-194
locationPathAdded(newF, f) ==
  IF ~Has(newF, "locationPath")
  THEN Del(Del(Del(Put(newF, "locationPath",
                       join(truthyParts(f, <<"storageLocation", "storageZone", "storagePosition">>), " / ")),
                   "storageLocation"), "storageZone"), "storagePosition")
  ELSE newF
\* 178-196
migrateLegacyFilament(f) == locationPathAdded(spoolLengthAdded(netWeightRenamed(f)), f)

\* 204: the comparator of the sort, as "a sorts before b"
filamentBefore(a, b) ==
  LET ma == StrOr(a, "madeDate", "")
      mb == StrOr(b, "madeDate", "")
  IN IF ma # mb THEN localeLess(ma, mb)
     ELSE localeLess(StrOr(a, "id", ""), StrOr(b, "id", ""))

\* 204: [...finalFilaments].sort(...), a stable sort
RECURSIVE insertSorted(_, _)
insertSorted(s, x) ==
  IF s = <<>> THEN <<x>>
  ELSE IF filamentBefore(x, Head(s)) THEN <<x>> \o s
  ELSE <<Head(s)>> \o insertSorted(Tail(s), x)
notSorted(s) == s
RECURSIVE sortFilaments(_)
sortFilaments(s) ==
  IF s = <<>> THEN <<>>
  ELSE insertSorted(sortFilaments(SubSeq(s, 1, Len(s) - 1)), s[Len(s)])

\* 203, 214
FreshCounters == [colorMap |-> EmptyObject, nextColorNum |-> 1, typeCounters |-> EmptyObject]

\* 208: Object.assign(newCounters, updatedCounters)
countersNotAccumulated(newCounters, updatedCounters) == newCounters
accumulate(newCounters, updatedCounters) == Spread(newCounters, updatedCounters)

\* 206-210: the ids are regenerated in list order, newCounters accumulating
RECURSIVE regenerateIds(_, _)
\* 207-209 for the item f, r being what the allocator returned for it
regenerateFrom(f, r, tail, newCounters) ==
  [head |-> Put(f, "id", r.newId),
   rest |-> regenerateIds(tail, accumulate(newCounters, r.updatedCounters))]
prepend(hr) ==
  [filaments |-> <<hr.head>> \o hr.rest.filaments, counters |-> hr.rest.counters]
regenerateIds(fs, newCounters) ==
  IF fs = <<>> THEN [filaments |-> <<>>, counters |-> newCounters]
  ELSE prepend(regenerateFrom(
         Head(fs),
         generateNewIdAndUpdateCounters(StrOr(Head(fs), "type", ""),
                                        StrOr(Head(fs), "manufacturerColor", ""), newCounters),
         Tail(fs), newCounters))

\* 219-221
spoolNumBackfilled(newCounters, type, spoolNumStr) ==
  Put(newCounters, "typeCounters",
      Put(newCounters.typeCounters, type,
          [nextSpoolNum |->
             MathMax(IF Has(newCounters.typeCounters, type)
                     THEN newCounters.typeCounters[type].nextSpoolNum ELSE 1,
                     PlusOne(parseInt(spoolNumStr)))]))
\* 223-228
colorBackfilled(newCounters, mfgColor, colorCode) ==
  IF Falsy(newCounters.colorMap, mfgColor)
  THEN Put(Put(newCounters, "colorMap", Put(newCounters.colorMap, mfgColor, colorCode)),
           "nextColorNum", MathMax(newCounters.nextColorNum, PlusOne(parseInt(colorCode))))
  ELSE newCounters
\* 216-217: the i-th part of the destructured split, '' for undefined
partOf(parts, i) == IF Len(parts) >= i THEN parts[i] ELSE ""
backfillParts(f, parts, newCounters) ==
  IF partOf(parts, 1) = "" \/ partOf(parts, 2) = "" \/ partOf(parts, 3) = "" THEN newCounters
  ELSE colorBackfilled(spoolNumBackfilled(newCounters, partOf(parts, 1), partOf(parts, 2)),
                       StrOr(f, "manufacturerColor", "Unknown"), partOf(parts, 3))
\* 216-228: one step of the forEach
backfillOne(f, newCounters) == backfillParts(f, split(f.id, "-"), newCounters)

RECURSIVE backfillCounters(_, _)
backfillCounters(fs, newCounters) ==
  IF fs = <<>> THEN newCounters
  ELSE backfillCounters(Tail(fs), backfillOne(Head(fs), newCounters))

\* 233: idCounters.version = 3
CurrentVersion == 3
versionNotStamped(c) == c
stampVersion(c) == Put(c, "version", CurrentVersion)

\* 200-231: the items and the counters after the id migration
idsMigrated(legacyMigratedFilaments, idCounters0, dataVersion) ==
  IF dataVersion < 3 /\ Len(legacyMigratedFilaments) > 0
  THEN regenerateIds(sortFilaments(legacyMigratedFilaments), FreshCounters)
  ELSE [filaments |-> legacyMigratedFilaments,
        counters  |-> IF Cardinality(DOMAIN idCounters0) = 0 /\ Len(legacyMigratedFilaments) > 0
                      THEN backfillCounters(legacyMigratedFilaments, FreshCounters)
                      ELSE idCounters0]

\* 174-197
legacyMigrated(rawFilaments) ==
  IF needsLegacyMigration(rawFilaments)
  THEN [i \in 1..Len(rawFilaments) |-> migrateLegacyFilament(rawFilaments[i])]
  ELSE rawFilaments

\* 167-171
printersMigrated(printers0, seed) ==
  [i \in 1..Len(printers0) |-> migratePrinter(printers0[i], randomUUID(seed, i))]

\* 233-235
migrated(m, passedTree, newPrinters) ==
  [filaments |-> m.filaments, storageTree |-> passedTree,
   idCounters |-> stampVersion(m.counters), printers |-> newPrinters]

migrateData(data, seed) ==
  migrated(idsMigrated(legacyMigrated(OrElse(data, "filaments", <<>>)),
                       OrElse(data, "idCounters", EmptyObject),
                       dataVersionOf(data)),
           OrElse(data, "storageTree", <<>>),
           printersMigrated(OrElse(data, "printers", <<>>), seed))

\* JSON.parse('null') and a null entry of an array: the value null, told
\* from the objects of the program by its one key
JsonNull == [jsonNull |-> TRUE]
IsNull(v) == Has(v, "jsonNull")

\* migrateData raises a TypeError where it reads a property of null:
\* data.filaments (160) and, for an item f, f.locationPath (174) or
\* f.storageLocation (190)
raises(data) ==
  \/ IsNull(data)
  \/ \E i \in 1..Len(OrElse(data, "filaments", <<>>)) :
       IsNull(OrElse(data, "filaments", <<>>)[i])

\* a call of migrateData: what it returned, or that it raised
outcome(data, seed) ==
  IF raises(data) THEN [run |-> TRUE, raised |-> TRUE]
  ELSE [run |-> TRUE, raised |-> FALSE, result |-> migrateData(data, seed)]

(***************************************************************************)
(* Idle values of the three groups of variables                            *)
(***************************************************************************)
\* useState initial values, 1295-1305; localStorage holds no 'app_data'
NoItem == "null"
NoData == [present |-> FALSE]
AppInitial ==
  /\ appStatus = "LOADING"
  /\ filaments = <<>>
  /\ storageTree = <<>>
  /\ printers = <<>>
  /\ idCounters = EmptyObject
  /\ mode = "list"
  /\ currentFilamentId = NoItem
  /\ hasUnsavedChanges = FALSE
  /\ isDirty = FALSE
  /\ locationFilter = ""
  /\ app_data = NoData
  /\ everIssued = <<>>
  /\ printedLabel = EmptyObject
  /\ nAlloc = 0

NoCall == [made |-> FALSE]
AllocInitial ==
  /\ counters = EmptyObject
  /\ twin = EmptyObject
  /\ returned = <<>>
  /\ call = NoCall

NotRun == [run |-> FALSE]
MigInitial ==
  /\ rawData = NotRun
  /\ once = NotRun
  /\ twice = NotRun

\* op is the last edit made in the storage manager since it was mounted
\* (kind, the handler's arguments, the tree before it), with the number n of
\* edits made in this run and the paths of the nodes removed since it was
\* mounted; the storage manager is not mounted, no edit was made
NoOp == [kind |-> "none", n |-> 0, removed |-> {}]
\* the storage manager is unmounted
Unmounted == [kind |-> "none", n |-> op.n, removed |-> {}]
MgrInitial ==
  /\ tree = <<>>
  /\ op = NoOp

(***************************************************************************)
(* SpecAlloc: a caller that feeds each call of the allocator the counters  *)
(* returned by the previous one, starting from {}.  A second caller (twin) *)
(* makes the same calls with the same colour labels and other types.       *)
(***************************************************************************)
AllocTypes  == {"PLA", "PETG", "pla+", "", "!!"}
\* the type the second caller uses where the first uses typeStr
TwinType(typeStr) == IF typeCode(typeStr) = "PETG" THEN "ABS" ELSE "PETG"
AllocColors == {"Galaxy Black", "Arctic White", ""}

Allocate(typeStr, mfgColorStr) ==
  /\ Len(returned) < MaxCalls
  /\ LET r  == generateNewIdAndUpdateCounters(typeStr, mfgColorStr, counters)
         r2 == generateNewIdAndUpdateCounters(TwinType(typeStr), mfgColorStr, twin)
     IN /\ counters' = r.updatedCounters
        /\ twin' = r2.updatedCounters
        /\ returned' = Append(returned, [typeStr |-> typeStr, mfgColorStr |-> mfgColorStr,
                                         newId |-> r.newId, twinId |-> r2.newId])
        /\ call' = [made |-> TRUE, typeStr |-> typeStr, mfgColorStr |-> mfgColorStr,
                    before |-> counters,
                    argument |-> argumentAfterCall(typeStr, mfgColorStr, counters),
                    result |-> r]
  /\ UNCHANGED <<appVars, migVars, mgrVars>>

InitAlloc == AppInitial /\ AllocInitial /\ MigInitial /\ MgrInitial
NextAlloc == \E t \in AllocTypes, c \in AllocColors : Allocate(t, c)
SpecAlloc == InitAlloc /\ [][NextAlloc]_vars

(***************************************************************************)
(* Properties of the allocator                                             *)
(***************************************************************************)
\* C1: all ids returned by a chain of allocate calls that starts from empty
\* counters are pairwise distinct.
C1_IdsPairwiseDistinct ==
  \A i, j \in 1..Len(returned) : i # j => returned[i].newId # returned[j].newId

\* three calls, two of them for the same type code and the same colour
C1_Witness ==
  /\ Len(returned) >= 3
  /\ \E i, j \in 1..Len(returned) :
       /\ i # j
       /\ typeCode(returned[i].typeStr) = typeCode(returned[j].typeStr)
       /\ returned[i].mfgColorStr = returned[j].mfgColorStr

\* C8: the colour code depends on the colour label and on the order of first
\* use only: callers that use the same labels in the same order with other
\* types hold the same colorMap and nextColorNum, and one label has one code
\* in every id, whatever the type.
ColorPart(id) == split(id, "-")[3]
C8_ColorCodeIndependentOfType ==
  /\ Has(counters, "colorMap") <=> Has(twin, "colorMap")
  /\ Has(counters, "colorMap") =>
       /\ counters.colorMap = twin.colorMap
       /\ counters.nextColorNum = twin.nextColorNum
  /\ \A i, j \in 1..Len(returned) :
       mfgColorOf(returned[i].mfgColorStr) = mfgColorOf(returned[j].mfgColorStr)
         => /\ ColorPart(returned[i].newId) = ColorPart(returned[j].newId)
            /\ ColorPart(returned[i].newId) = ColorPart(returned[j].twinId)

\* one label allocated under two type codes, the twin using yet other types
C8_Witness ==
  /\ \E i, j \in 1..Len(returned) :
       /\ typeCode(returned[i].typeStr) # typeCode(returned[j].typeStr)
       /\ returned[i].mfgColorStr = returned[j].mfgColorStr
  /\ DOMAIN counters.typeCounters # DOMAIN twin.typeCounters
  /\ Cardinality(DOMAIN counters.colorMap) >= 2

\* C9: the id is typeCode-spoolNumber-colourCode with a 4 digit spool number
\* equal to the type's counter before the call (1 for a new type) and a 3
\* digit colour code; the counter is then one higher.  From empty counters
\* (PLA, Galaxy Black), (PETG, Galaxy Black), (PLA, Arctic White) yield
\* PLA-0001-001, PETG-0001-001, PLA-0002-002.
SpoolBefore(c, type) ==
  IF Has(c, "typeCounters") /\ Has(c.typeCounters, type)
  THEN c.typeCounters[type].nextSpoolNum ELSE 1
ScenarioA == <<[t |-> "PLA", c |-> "Galaxy Black"], [t |-> "PETG", c |-> "Galaxy Black"],
               [t |-> "PLA", c |-> "Arctic White"]>>
IsScenarioA ==
  /\ Len(returned) >= 3
  /\ \A i \in 1..3 : /\ returned[i].typeStr = ScenarioA[i].t
                     /\ returned[i].mfgColorStr = ScenarioA[i].c
CodesOf(c) == {c.colorMap[k] : k \in DOMAIN c.colorMap}
DenseCodes(c) ==
  Has(c, "colorMap") =>
    /\ \A k1, k2 \in DOMAIN c.colorMap : k1 # k2 => c.colorMap[k1] # c.colorMap[k2]
    /\ {parseInt(code) : code \in CodesOf(c)} = 1..(c.nextColorNum - 1)
    /\ \A code \in CodesOf(c) : code = padStart(toString(parseInt(code)), 3)
C11_ColorCodesDense == DenseCodes(counters) /\ DenseCodes(twin)

\* three labels were given codes, the default label 'Unknown' among them
C11_Witness ==
  /\ Has(counters, "colorMap")
  /\ Cardinality(DOMAIN counters.colorMap) = 3
  /\ Has(counters.colorMap, "Unknown")
  /\ counters.nextColorNum = 4

\* C12: the type part of an id is the type in upper case without the
\* characters other than A-Z and 0-9, cut to 4 characters, and is UNK
\* whenever that leaves nothing, so it is never empty.
Normalized(typeStr) == replaceNonAZ09(toUpperCase(typeStr))
C12_TypeCodeNeverEmpty ==
  \A i \in 1..Len(returned) :
    LET code == split(returned[i].newId, "-")[1]
    IN /\ code # ""
       /\ Len(code) <= 4
       /\ \A k \in 1..Len(code) : IsAZ09(CharAt(code, k))
       /\ code = IF Normalized(returned[i].typeStr) = "" THEN "UNK"
                 ELSE substring0(Normalized(returned[i].typeStr), 4)

(***************************************************************************)
(* SpecMig: migrateData applied to a raw bundle, then to its own result    *)
(***************************************************************************)
MaxRawItems == 2   \* items of a raw bundle

\* items as earlier versions of the app stored them, and current ones
RawItems == {
  [id |-> "3", type |-> "PLA", manufacturerColor |-> "Red", madeDate |-> "2",
   netWeight |-> 1000, spoolWeight |-> 200, storageLocation |-> "R1", storageZone |-> "FA"],
  [id |-> "7", type |-> "ABS", manufacturerColor |-> "Red", madeDate |-> "2",
   totalWeight |-> 1200, spoolWeight |-> 200, spoolSize |-> 1000, spoolLength |-> 33528,
   locationPath |-> "A"],
  [id |-> "PLA-0003-002", type |-> "PLA", manufacturerColor |-> "Blue", madeDate |-> "",
   totalWeight |-> 900, spoolWeight |-> 200, spoolSize |-> 1000, spoolLength |-> 33528,
   locationPath |-> ""],
  [id |-> "ABS-0001-001", type |-> "ABS", manufacturerColor |-> "Red", madeDate |-> "",
   totalWeight |-> 1200, spoolWeight |-> 200, spoolSize |-> 1000, spoolLength |-> 39976,
   locationPath |-> "A"],
  [manufacturerColor |-> "Red", totalWeight |-> 700, spoolWeight |-> 200, spoolSize |-> 1000,
   spoolLength |-> 33528, locationPath |-> ""],
  JsonNull }

RawFilamentLists ==
  {fs \in UNION {[1..n -> RawItems] : n \in 0..MaxRawItems} :
     \A i, j \in 1..Len(fs) : i # j => fs[i] # fs[j]}

RawCounters == {
  EmptyObject,
  [version |-> 2, nextId |-> 8],
  [version |-> 3, colorMap |-> [Red |-> "001", Blue |-> "002"], nextColorNum |-> 3,
   typeCounters |-> [PLA |-> [nextSpoolNum |-> 4], ABS |-> [nextSpoolNum |-> 2]]] }

RawPrinterLists == {
  <<[name |-> "MK4", manufacturer |-> "Prusa", nozzle |-> "0.4"]>>,
  <<[id |-> "p1", name |-> "Ender", manufacturer |-> "Creality", nozzle |-> "0.4",
     filamentDiameter |-> 285]>> }

RawTrees == { <<[name |-> "A", path |-> "A", children |-> <<>>]>> }

\* a bundle with or without each of its four members
Member(k, values) == {EmptyObject} \cup {[x \in {k} |-> v] : v \in values}
RawBundles ==
  {Spread(Spread(f, c), Spread(p, t)) :
     f \in Member("filaments", RawFilamentLists), c \in Member("idCounters", RawCounters),
     p \in Member("printers", RawPrinterLists), t \in Member("storageTree", RawTrees)}

UuidSeeds == {"u", "v"}

Migrate(seed) ==
  /\ ~once.run
  /\ once' = outcome(rawData, seed)
  /\ UNCHANGED <<rawData, twice, appVars, allocVars, mgrVars>>

MigrateAgain(seed) ==
  /\ once.run /\ ~once.raised /\ ~twice.run
  /\ twice' = outcome(once.result, seed)
  /\ UNCHANGED <<rawData, once, appVars, allocVars, mgrVars>>

InitMig ==
  /\ AppInitial /\ AllocInitial /\ MgrInitial
  /\ rawData \in RawBundles \cup {JsonNull}
  /\ once = NotRun
  /\ twice = NotRun
NextMig == \E seed \in UuidSeeds : Migrate(seed) \/ MigrateAgain(seed)
SpecMig == InitMig /\ [][NextMig]_vars

\* C6: migrateData is idempotent: migrating the result of a migration gives
\* that result again, in filaments, storage tree, counters and printers.
C6_MigrateIdempotent == twice.run => twice.result = once.result

\* a bundle of an old version whose ids were regenerated in another order,
\* with a printer that received an id, migrated twice
C6_Witness ==
  /\ twice.run
  /\ dataVersionOf(rawData) < 3
  /\ Has(rawData, "filaments") /\ Len(rawData.filaments) >= 2
  /\ Has(rawData.filaments[1], "id")
  /\ once.result.filaments[1].id # rawData.filaments[1].id
  /\ Has(once.result.filaments[1], "locationPath")
  /\ ~Has(rawData.filaments[2], "locationPath")
  /\ Has(rawData, "printers") /\ ~Has(rawData.printers[1], "id")

\* C7: a bundle whose items carry current-format ids and that has no counter
\* state keeps its ids, and its counters are rebuilt from them:
\* nextSpoolNum >= spool number + 1 and nextColorNum >= colour code + 1 for
\* every id, each label bound to the colour code of its first id; the ids
\* PLA-0003-002 and ABS-0001-001 give PLA 4, ABS 2 and nextColorNum >= 3.
IsCurrentFormatId(id) ==
  LET parts == split(id, "-")
  IN /\ Len(parts) = 3
     /\ Len(parts[1]) \in 1..4 /\ \A i \in 1..Len(parts[1]) : IsAZ09(CharAt(parts[1], i))
     /\ Len(parts[2]) = 4 /\ DigitPrefix(parts[2]) = parts[2]
     /\ Len(parts[3]) = 3 /\ DigitPrefix(parts[3]) = parts[3]
NoCounterState(data) == ~Has(data, "idCounters") \/ data.idCounters = EmptyObject
C7_CounterBackfill ==
  ( /\ once.run
    /\ NoCounterState(rawData)
    /\ Has(rawData, "filaments") /\ Len(rawData.filaments) > 0
    /\ \A i \in 1..Len(rawData.filaments) :
         /\ Has(rawData.filaments[i], "id")
         /\ IsCurrentFormatId(rawData.filaments[i].id) )
  => LET fs == rawData.filaments
         c  == once.result.idCounters
     IN /\ Len(once.result.filaments) = Len(fs)
        /\ \A i \in 1..Len(fs) :
             LET parts == split(fs[i].id, "-")
             IN /\ once.result.filaments[i].id = fs[i].id
                /\ Has(c.typeCounters, parts[1])
                /\ c.typeCounters[parts[1]].nextSpoolNum >= parseInt(parts[2]) + 1
                /\ c.nextColorNum >= parseInt(parts[3]) + 1
                /\ Has(c.colorMap, fs[i].manufacturerColor)
                /\ (\A j \in 1..(i-1) : fs[j].manufacturerColor # fs[i].manufacturerColor)
                     => c.colorMap[fs[i].manufacturerColor] = parts[3]
        /\ (Len(fs) = 2 /\ fs[1].id = "PLA-0003-002" /\ fs[2].id = "ABS-0001-001")
             => /\ c.typeCounters["PLA"].nextSpoolNum = 4
                /\ c.typeCounters["ABS"].nextSpoolNum = 2
                /\ c.nextColorNum >= 3

\* C14: when the counter version of the bundle is below 3 and it has items,
\* the old counters are discarded, the items are put in the order of
\* (madeDate, prior id) ascending, blanks first, each item in that order gets
\* the id the allocator returns, starting from empty counters, and the
\* counters returned are the accumulated ones.
KeyLeq(a, b) ==
  \/ localeLess(StrOr(a, "madeDate", ""), StrOr(b, "madeDate", ""))
  \/ /\ StrOr(a, "madeDate", "") = StrOr(b, "madeDate", "")
     /\ ~localeLess(StrOr(b, "id", ""), StrOr(a, "id", ""))
RECURSIVE CountersAfter(_, _)
CountersAfter(out, i) ==
  IF i = 0 THEN EmptyObject
  ELSE generateNewIdAndUpdateCounters(StrOr(out[i], "type", ""),
                                      StrOr(out[i], "manufacturerColor", ""),
                                      CountersAfter(out, i - 1)).updatedCounters
IdMigrationCase ==
  /\ once.run /\ ~once.raised
  /\ dataVersionOf(rawData) < 3
  /\ Has(rawData, "filaments") /\ Len(rawData.filaments) > 0
C14_IdFormatMigration ==
  IdMigrationCase =>
    LET in  == legacyMigrated(rawData.filaments)
        out == once.result.filaments
        n   == Len(in)
    IN /\ Len(out) = n
       /\ \E perm \in [1..n -> 1..n] :
            /\ \A i, j \in 1..n : i # j => perm[i] # perm[j]
            /\ \A i \in 1..n : out[i] = Put(in[perm[i]], "id", out[i].id)
            /\ \A i, j \in 1..n : i < j => KeyLeq(in[perm[i]], in[perm[j]])
            /\ \A i \in 1..n : StrOr(in[perm[i]], "madeDate", "") = ""
                                 => \A j \in 1..(i-1) : StrOr(in[perm[j]], "madeDate", "") = ""
       /\ \A i \in 1..n :
            out[i].id = generateNewIdAndUpdateCounters(
                          StrOr(out[i], "type", ""), StrOr(out[i], "manufacturerColor", ""),
                          CountersAfter(out, i - 1)).newId
       /\ once.result.idCounters = Put(CountersAfter(out, n), "version", CurrentVersion)

\* a version 2 bundle with its old counter, whose two items change places
C14_Witness ==
  /\ IdMigrationCase
  /\ Has(rawData, "idCounters") /\ Has(rawData.idCounters, "nextId")
  /\ Len(rawData.filaments) = 2
  /\ Has(rawData.filaments[1], "madeDate") /\ rawData.filaments[1].madeDate # ""
  /\ Has(rawData.filaments[2], "madeDate") /\ rawData.filaments[2].madeDate = ""
  /\ once.result.filaments[1].manufacturerColor = rawData.filaments[2].manufacturerColor
  /\ once.result.filaments[1].manufacturerColor # rawData.filaments[1].manufacturerColor

\* C15: migrating a bundle without counter version whose items carry the
\* legacy fields netWeight, storageLocation and storageZone (and no
\* locationPath yet) yields items with totalWeight, spoolSize and one joined
\* locationPath and without the legacy fields, and counters with the
\* current version.
LegacyFields == {"netWeight", "storageLocation", "storageZone", "storagePosition"}
IsLegacyItem(f) ==
  /\ ~IsNull(f)
  /\ Has(f, "netWeight") /\ Has(f, "storageLocation") /\ Has(f, "storageZone")
  /\ ~Has(f, "locationPath")
LegacyCase ==
  /\ once.run /\ ~once.raised
  /\ ~Has(rawData, "idCounters") \/ ~Has(rawData.idCounters, "version")
  /\ Has(rawData, "filaments")
  /\ \E i \in 1..Len(rawData.filaments) : IsLegacyItem(rawData.filaments[i])
C15_LegacyMigration ==
  LegacyCase =>
    LET in  == rawData.filaments
        out == once.result.filaments
    IN /\ Len(out) = Len(in)
       /\ \A j \in 1..Len(out) :
            /\ DOMAIN out[j] \cap LegacyFields = {}
            /\ Has(out[j], "locationPath") /\ Has(out[j], "totalWeight")
            /\ Has(out[j], "spoolSize")
       /\ \A i \in 1..Len(in) :
            IsLegacyItem(in[i]) =>
              \E j \in 1..Len(out) :
                /\ Has(out[j], "madeDate") /\ out[j].madeDate = in[i].madeDate
                /\ Has(out[j], "type") /\ out[j].type = in[i].type
                /\ out[j].spoolSize = in[i].netWeight
                /\ out[j].totalWeight = in[i].netWeight + in[i].spoolWeight
                /\ out[j].locationPath = in[i].storageLocation \o " / " \o in[i].storageZone
       /\ once.result.idCounters.version = CurrentVersion

\* a legacy item and a current one in a bundle without counters
C15_Witness ==
  /\ LegacyCase
  /\ ~Has(rawData, "idCounters")
  /\ Len(rawData.filaments) = 2
  /\ \E i \in 1..2 : Has(rawData.filaments[i], "locationPath")
  /\ \E j \in 1..2 : once.result.filaments[j].locationPath = "R1 / FA"

\* C13: migrateData never fails: for every raw bundle, the null document,
\* bundles without some members and items without id or date among them,
\* it returns a bundle and does not raise, so that the load effect leaves
\* the state LOADING.
C13_MigrateNeverFails == once.run => ~once.raised

(***************************************************************************)
(* The App component (src/index.tsx 1291-1649)                             *)
(*                                                                         *)
(* An item carries the fields the handlers and the migration read: id,     *)
(* type, manufacturerColor, madeDate, status, assignedPrinterId,           *)
(* locationPath, totalWeight, spoolLength and notes; the remaining fields  *)
(* of the form are payload that no handler reads.                          *)
(*                                                                         *)
(* React runs a handler to completion and flushes the effects of the       *)
(* render it caused before the next event is handled, so the handlers are  *)
(* disabled while the persist effect is pending.  The effect of lines      *)
(* 1350-1352 finds nothing to do after any of the handlers below (each     *)
(* leaves currentFilamentId at an item of the list or leaves the modes     *)
(* detail and edit), and is left out.                                      *)
(***************************************************************************)
Ready == appStatus = "READY" /\ ~hasUnsavedChanges

\* 1344: JSON.stringify({ filaments, storageTree, idCounters, printers }),
\* 1329: JSON.parse(rawData).  Keys with the value undefined are dropped by
\* JSON.stringify; they are the keys an object of the model does not have.
bundleOf(f, t, c, p) == [filaments |-> f, storageTree |-> t, idCounters |-> c, printers |-> p]
stringify(bundle) == [present |-> TRUE, text |-> bundle]
parse(item) == item.text

indexOfId(fs, id) == CHOOSE i \in 1..Len(fs) : fs[i].id = id
hasId(fs, id) == \E i \in 1..Len(fs) : Has(fs[i], "id") /\ fs[i].id = id
firstWithId(fs, id) ==
  CHOOSE i \in 1..Len(fs) : fs[i].id = id /\ \A j \in 1..(i-1) : fs[j].id # id

\* 1549: traverse, the paths of a forest in pre-order
RECURSIVE traverse(_)
traverse(nodes) ==
  IF nodes = <<>> THEN <<>>
  ELSE <<Head(nodes).path>> \o traverse(Head(nodes).children) \o traverse(Tail(nodes))

inSeq(x, s) == \E i \in 1..Len(s) : s[i] = x

\* 1324-1339: the effect run once when the component is mounted
LoadEffect(seed) ==
  /\ appStatus = "LOADING"
  /\ IF ~app_data.present
     THEN /\ appStatus' = "FIRST_RUN"
          /\ UNCHANGED <<filaments, storageTree, idCounters, printers>>
     ELSE IF raises(parse(app_data))
     THEN /\ appStatus' = "LOADING"                                     \* 1338
          /\ UNCHANGED <<filaments, storageTree, idCounters, printers>>
     ELSE LET m == migrateData(parse(app_data), seed)
          IN /\ filaments' = m.filaments
             /\ storageTree' = m.storageTree
             /\ idCounters' = m.idCounters
             /\ printers' = m.printers
             /\ appStatus' = "READY"
  /\ UNCHANGED <<mode, currentFilamentId, hasUnsavedChanges, isDirty, locationFilter,
                 app_data, everIssued, printedLabel, nAlloc, allocVars, migVars, mgrVars>>

\* 1344: the item app_data after the effect has run, stored being the item
\* before it
notPersisted(stored, bundle) == stored
persisted(stored, bundle) == stringify(bundle)

\* 1341-1348: the effect that writes the bundle to localStorage
PersistEffect ==
  /\ appStatus = "READY" /\ hasUnsavedChanges
  /\ app_data' = persisted(app_data, bundleOf(filaments, storageTree, idCounters, printers))
  /\ hasUnsavedChanges' = FALSE
  /\ UNCHANGED <<appStatus, filaments, storageTree, printers, idCounters, mode,
                 currentFilamentId, isDirty, locationFilter, everIssued, printedLabel,
                 nAlloc, allocVars, migVars, mgrVars>>

\* a file chosen for import: its text is the JSON of a value, or no JSON
Malformed == [malformed |-> TRUE]
fileOf(data) == [malformed |-> FALSE, text |-> data]
\* 1489-1490 raise: JSON.parse on a text that is no JSON, or migrateData
importFails(file) == file.malformed \/ raises(file.text)

\* 1493-1497: what the setters are given, m being what migrateData returned
countersNotImported(current, m) == current
importedCounters(current, m) == m.idCounters

\* 1483-1508, reader.onload for the file chosen; the input is rendered once
\* the load effect has run (1652-1653).  migrateData is called a second
\* time after the confirmation (1493) and returns the printers with the
\* ids of that call.
handleFileChange(file, seed, confirmed) ==
  /\ appStatus = "FIRST_RUN" \/ Ready
  /\ IF importFails(file) \/ ~confirmed                                 \* 1492, 1504
     THEN UNCHANGED <<appStatus, filaments, storageTree, printers, idCounters, mode,
                      currentFilamentId, hasUnsavedChanges, isDirty, mgrVars>>
     ELSE /\ filaments' = migrateData(file.text, seed).filaments
          /\ storageTree' = migrateData(file.text, seed).storageTree
          /\ idCounters' = importedCounters(idCounters, migrateData(file.text, seed))
          /\ printers' = migrateData(file.text, seed).printers
          /\ hasUnsavedChanges' = TRUE
          /\ appStatus' = "READY"
          /\ mode' = "list" /\ currentFilamentId' = NoItem              \* 1444
          /\ tree' = <<>> /\ op' = Unmounted
          /\ isDirty' = FALSE
  /\ UNCHANGED <<locationFilter, app_data, everIssued, printedLabel, nAlloc, allocVars,
                 migVars>>

\* the page is closed and opened again: the component state is the initial
\* state of 1295-1305, localStorage is kept
ReloadPage ==
  /\ appStatus = "FIRST_RUN" \/ Ready
  /\ appStatus' = "LOADING"
  /\ filaments' = <<>>
  /\ storageTree' = <<>>
  /\ printers' = <<>>
  /\ idCounters' = EmptyObject
  /\ mode' = "list"
  /\ currentFilamentId' = NoItem
  /\ hasUnsavedChanges' = FALSE
  /\ isDirty' = FALSE
  /\ locationFilter' = ""
  /\ tree' = <<>> /\ op' = Unmounted
  /\ UNCHANGED <<app_data, everIssued, printedLabel, nAlloc, allocVars, migVars>>

\* 1638-1649, offered by the welcome view (1652)
handleCreateNew(confirmed) ==
  /\ appStatus = "FIRST_RUN"
  /\ IF isDirty /\ ~confirmed
     THEN UNCHANGED <<appStatus, filaments, storageTree, printers, idCounters, mode,
                      currentFilamentId, hasUnsavedChanges, isDirty>>
     ELSE /\ filaments' = <<>>
          /\ storageTree' = <<>>
          /\ idCounters' = EmptyObject
          /\ printers' = <<>>
          /\ hasUnsavedChanges' = TRUE
          /\ mode' = "list"
          /\ currentFilamentId' = NoItem
          /\ appStatus' = "READY"
          /\ isDirty' = FALSE
  /\ UNCHANGED <<locationFilter, app_data, everIssued, printedLabel, nAlloc, allocVars, migVars, mgrVars>>

\* 1623-1636, the reset button of the header (1657-1677)
handleReset(confirmed) ==
  /\ Ready
  /\ IF ~confirmed                                                      \* 1624
     THEN UNCHANGED <<appStatus, filaments, storageTree, printers, idCounters, mode,
                      currentFilamentId, hasUnsavedChanges, isDirty, app_data, mgrVars>>
     ELSE /\ app_data' = NoData                                         \* 1625
          /\ filaments' = <<>>
          /\ storageTree' = <<>>
          /\ idCounters' = EmptyObject
          /\ printers' = <<>>
          /\ hasUnsavedChanges' = FALSE
          /\ mode' = "list"
          /\ currentFilamentId' = NoItem
          /\ appStatus' = "FIRST_RUN"
          /\ isDirty' = FALSE
          /\ tree' = <<>> /\ op' = Unmounted
  /\ UNCHANGED <<locationFilter, everIssued, printedLabel, nAlloc, allocVars, migVars>>

\* ---- navigation: 1421-1425, 1432-1449 and the buttons of 1670-1676
navFrame == <<appStatus, filaments, storageTree, printers, idCounters, hasUnsavedChanges,
              isDirty, locationFilter, app_data, everIssued, printedLabel, nAlloc,
              allocVars, migVars, mgrVars>>

handleStartAdd ==
  /\ Ready /\ mode = "list"
  /\ mode' = "add" /\ currentFilamentId' = NoItem
  /\ UNCHANGED navFrame

handleViewDetail(id) ==
  /\ Ready /\ mode = "list" /\ hasId(filaments, id)
  /\ mode' = "detail" /\ currentFilamentId' = id
  /\ UNCHANGED navFrame

handleStartEdit(id) ==
  /\ Ready /\ mode = "detail" /\ id = currentFilamentId
  /\ mode' = "edit" /\ currentFilamentId' = id
  /\ UNCHANGED navFrame

handleCopy(id) ==
  /\ Ready /\ mode = "detail" /\ id = currentFilamentId /\ hasId(filaments, id)
  /\ mode' = "add" /\ currentFilamentId' = NoItem
  /\ UNCHANGED navFrame

\* also the onClose of the managers (1717-1718), which unmounts them
handleGoToOverview ==
  /\ Ready /\ mode # "list"
  /\ mode' = "list" /\ currentFilamentId' = NoItem
  /\ tree' = <<>> /\ op' = Unmounted
  /\ UNCHANGED <<appStatus, filaments, storageTree, printers, idCounters, hasUnsavedChanges,
                 isDirty, locationFilter, app_data, everIssued, printedLabel, nAlloc,
                 allocVars, migVars>>

openManager(m) ==
  /\ Ready /\ mode = "list"
  /\ mode' = m
  /\ tree' = IF m = "storage_manager" THEN storageTree ELSE tree           \* 908
  /\ UNCHANGED <<currentFilamentId, appStatus, filaments, storageTree, printers, idCounters,
                 hasUnsavedChanges, isDirty, locationFilter, app_data, everIssued,
                 printedLabel, nAlloc, allocVars, migVars, op>>

\* Array.prototype.sort() without a comparator: the order of the UTF-16
\* code units, here of ' ', '+', '/', digits, letters and '_'
CodeUnitOrder == " +/" \o Digits \o UpperLetters \o "_" \o LowerLetters
CodeUnit(c) == IndexIn(c, CodeUnitOrder)
RECURSIVE codeUnitLess(_, _)
codeUnitLess(a, b) ==
  IF b = "" THEN FALSE
  ELSE IF a = "" THEN TRUE
  ELSE IF Head(a) = Head(b) THEN codeUnitLess(Tail(a), Tail(b))
  ELSE CodeUnit(Head(a)) < CodeUnit(Head(b))
RECURSIVE insertPath(_, _)
insertPath(x, sorted) ==
  IF sorted = <<>> THEN <<x>>
  ELSE IF codeUnitLess(x, Head(sorted)) THEN <<x>> \o sorted
  ELSE <<Head(sorted)>> \o insertPath(x, Tail(sorted))
RECURSIVE sort(_)
sort(paths) == IF paths = <<>> THEN <<>> ELSE insertPath(Head(paths), sort(Tail(paths)))

\* 1518-1523
allLocationPaths == sort(traverse(storageTree))

\* s.startsWith(prefix)
startsWith(s, prefix) == Len(s) >= Len(prefix) /\ SubSeq(s, 1, Len(prefix)) = prefix

\* 1609-1613: the first filter of filteredFilaments; the type and the colour
\* filter are '' and let every item pass (1614-1618)
Unsorted == "__UNSORTED__"
passesLocationFilter(f) ==
  IF locationFilter = "" THEN TRUE
  ELSE IF locationFilter = Unsorted THEN f.locationPath = ""
  ELSE f.locationPath # "" /\ startsWith(f.locationPath, locationFilter)
filteredFilaments == SelectSeq(filaments, passesLocationFilter)

\* 1682: the links of the StorageTreeView
setLocationFilter(path) ==
  /\ Ready /\ mode = "list"
  /\ locationFilter' = path
  /\ UNCHANGED <<appStatus, filaments, storageTree, printers, idCounters, mode,
                 currentFilamentId, hasUnsavedChanges, isDirty, app_data, everIssued,
                 printedLabel, nAlloc, allocVars, migVars, mgrVars>>

\* 1451-1454: the link of the detail view to the place of the item shown
handleSelectLocation(path) ==
  /\ Ready /\ mode = "detail" /\ hasId(filaments, currentFilamentId)
  /\ path = filaments[firstWithId(filaments, currentFilamentId)].locationPath /\ path # ""
  /\ locationFilter' = path
  /\ mode' = "list" /\ currentFilamentId' = NoItem
  /\ UNCHANGED <<appStatus, filaments, storageTree, printers, idCounters, hasUnsavedChanges,
                 isDirty, app_data, everIssued, printedLabel, nAlloc, allocVars, migVars,
                 mgrVars>>

\* s.indexOf(sub), for a sub that s includes
indexOf(s, sub) ==
  CHOOSE i \in 1..(Len(s) - Len(sub) + 1) :
    /\ SubSeq(s, i, i + Len(sub) - 1) = sub
    /\ \A j \in 1..(i - 1) : SubSeq(s, j, j + Len(sub) - 1) # sub
\* s.split(sep) for a separator of any length
RECURSIVE splitAt(_, _)
splitAt(s, sep) ==
  IF ~includes(s, sep) THEN <<s>>
  ELSE <<SubSeq(s, 1, indexOf(s, sep) - 1)>>
       \o splitAt(SubSeq(s, indexOf(s, sep) + Len(sep), Len(s)), sep)
\* 1580, 1586, 1587
scanParts(scannedText) == splitAt(scannedText, "::")
scanType(scannedText) == scanParts(scannedText)[1]
scanData(scannedText) == join(Tail(scanParts(scannedText)), "::")

\* 1596: allLocationPaths.includes(data) || data === ""
anyPlace(data) == TRUE
knownPlace(data) == inSeq(data, allLocationPaths) \/ data = ""

\* 1578-1605; the scanner button is in the header in every mode (1672), a
\* change of mode unmounts the storage manager (1717)
scanFrame == <<appStatus, filaments, storageTree, printers, idCounters, hasUnsavedChanges,
               isDirty, app_data, everIssued, printedLabel, nAlloc, allocVars, migVars>>
scanRejected == UNCHANGED <<mode, currentFilamentId, locationFilter, mgrVars>>       \* alert
handleGlobalScan(scannedText) ==
  /\ Ready
  /\ IF Len(scanParts(scannedText)) < 2 THEN scanRejected                           \* 1581-1584
     ELSE IF scanType(scannedText) = "FMT_SPOOL"
     THEN IF hasId(filaments, scanData(scannedText))                                \* 1590
          THEN /\ currentFilamentId' = scanData(scannedText)                        \* 1443
               /\ mode' = "detail"
               /\ tree' = <<>> /\ op' = Unmounted
               /\ UNCHANGED locationFilter
          ELSE scanRejected
     ELSE IF scanType(scannedText) = "FMT_LOCATION"
     THEN IF knownPlace(scanData(scannedText))                                     \* 1596
          THEN /\ locationFilter' = scanData(scannedText)                           \* 1597
               /\ mode' = "list" /\ currentFilamentId' = NoItem                     \* 1444
               /\ tree' = <<>> /\ op' = Unmounted
          ELSE scanRejected
     ELSE scanRejected
  /\ UNCHANGED scanFrame

\* 353-375: what FilamentForm.handleSubmit passes to onSave.  The key
\* assignedPrinterId is undefined unless the status is 'Auf Drucker' (367);
\* the key id is set when an existing item is edited (371-373).
formData(type, mfgColor, madeDate, status, printerId, locationPath, totalWeight, notes) ==
  LET base == [status |-> status, manufacturerColor |-> mfgColor, type |-> type,
               madeDate |-> madeDate, totalWeight |-> totalWeight, spoolLength |-> 0,
               locationPath |-> locationPath, notes |-> notes]
  IN IF status = "Auf Drucker" THEN Put(base, "assignedPrinterId", printerId) ELSE base

\* { ...f, ...form } where form holds every key of the form, those with the
\* value undefined included
spreadForm(f, form) ==
  LET merged == Spread(f, form)
  IN IF Has(form, "assignedPrinterId") THEN merged ELSE Del(merged, "assignedPrinterId")

neverSamePrinter(a, b) == FALSE
\* a.assignedPrinterId === b.assignedPrinterId
samePrinter(a, b) ==
  \/ ~Has(a, "assignedPrinterId") /\ ~Has(b, "assignedPrinterId")
  \/ Has(a, "assignedPrinterId") /\ Has(b, "assignedPrinterId")
       /\ a.assignedPrinterId = b.assignedPrinterId

\* { ...f, status: 'Angebrochen', assignedPrinterId: undefined }
takenOffPrinter(f) == Del(Put(f, "status", "Angebrochen"), "assignedPrinterId")

\* 1375, 1396: setIdCounters(updatedCounters)
countersNotCommitted(current, updatedCounters) == current
committedCounters(current, updatedCounters) == updatedCounters

\* 1369: !window.confirm(...)
neverDeclined(confirmed) == FALSE
declined(confirmed) == ~confirmed

saveFrame == <<appStatus, storageTree, printers, locationFilter, app_data, allocVars, migVars, mgrVars>>

\* 1354-1409
saveFilament(filamentData, confirmed) ==
  /\ Ready /\ mode \in {"add", "edit"}
  /\ LET isEditing == Has(filamentData, "id") /\ filamentData.id # ""
         \* 1357-1360
         clean == IF filamentData.status # "Auf Drucker"
                  THEN Del(filamentData, "assignedPrinterId") ELSE filamentData
         alloc == generateNewIdAndUpdateCounters(clean.type, clean.manufacturerColor, idCounters)
         issue == /\ nAlloc < MaxAlloc
                  /\ idCounters' = committedCounters(idCounters, alloc.updatedCounters)
                  /\ everIssued' = Append(everIssued, alloc.newId)
                  /\ printedLabel' = Put(printedLabel, clean.notes, alloc.newId)
                  /\ nAlloc' = nAlloc + 1
                  /\ currentFilamentId' = alloc.newId
         done  == /\ mode' = "detail"
                  /\ isDirty' = TRUE
                  /\ hasUnsavedChanges' = TRUE
         nothing == UNCHANGED <<filaments, idCounters, mode, currentFilamentId,
                                hasUnsavedChanges, isDirty, everIssued, printedLabel, nAlloc>>
     IN IF isEditing
        THEN IF ~hasId(filaments, clean.id)
             THEN nothing                                               \* 1364
             ELSE LET originalFilament == filaments[firstWithId(filaments, clean.id)]
                      hasCoreChange ==
                        \/ originalFilament.type # clean.type
                        \/ originalFilament.manufacturerColor # clean.manufacturerColor
                  IN IF hasCoreChange
                     THEN IF declined(confirmed)
                          THEN nothing                                  \* 1369-1371
                          ELSE /\ issue                                 \* 1372-1378
                               /\ filaments' =
                                    [i \in 1..Len(filaments) |->
                                       IF filaments[i].id = originalFilament.id
                                       THEN Put(clean, "id", alloc.newId)
                                       ELSE filaments[i]]
                               /\ done
                     ELSE /\ filaments' =                               \* 1380-1390
                               [i \in 1..Len(filaments) |->
                                  LET f == filaments[i]
                                  IN IF /\ clean.status = "Auf Drucker"
                                        /\ samePrinter(f, clean)
                                        /\ f.id # clean.id
                                     THEN takenOffPrinter(f)
                                     ELSE IF f.id = clean.id THEN spreadForm(f, clean)
                                     ELSE f]
                          /\ currentFilamentId' = clean.id
                          /\ done
                          /\ UNCHANGED <<idCounters, everIssued, printedLabel, nAlloc>>
        ELSE /\ Len(filaments) < MaxItems                               \* 1393-1405
             /\ issue
             /\ LET newFilament == Put(clean, "id", alloc.newId)
                    updatedList ==
                      IF /\ newFilament.status = "Auf Drucker"
                         /\ Has(newFilament, "assignedPrinterId")
                         /\ newFilament.assignedPrinterId # ""
                      THEN [i \in 1..Len(filaments) |->
                              IF samePrinter(filaments[i], newFilament)
                              THEN takenOffPrinter(filaments[i]) ELSE filaments[i]]
                      ELSE filaments
                IN filaments' = Append(updatedList, newFilament)
             /\ done
  /\ UNCHANGED saveFrame

\* 1412-1419, offered by the detail view
deleteFilament(id, confirmed) ==
  /\ Ready /\ mode = "detail" /\ id = currentFilamentId
  /\ IF confirmed
     THEN /\ filaments' = SelectSeq(filaments, LAMBDA f : f.id # id)
          /\ mode' = "list"
          /\ currentFilamentId' = NoItem
          /\ isDirty' = TRUE
          /\ hasUnsavedChanges' = TRUE
     ELSE UNCHANGED <<filaments, mode, currentFilamentId, isDirty, hasUnsavedChanges>>
  /\ UNCHANGED <<idCounters, everIssued, printedLabel, nAlloc, saveFrame>>

\* 1427-1430, offered by the cards of the list
handleUpdateWeight(id, newTotalWeight) ==
  /\ Ready /\ mode = "list" /\ hasId(filaments, id)
  /\ filaments' = [i \in 1..Len(filaments) |->
                     IF filaments[i].id = id
                     THEN Put(filaments[i], "totalWeight", newTotalWeight) ELSE filaments[i]]
  /\ isDirty' = TRUE
  /\ hasUnsavedChanges' = TRUE
  /\ UNCHANGED <<idCounters, mode, currentFilamentId, everIssued, printedLabel, nAlloc, saveFrame>>

\* 1555: { ...f, locationPath: '' }
locationKept(f) == f
locationCleared(f) == Put(f, "locationPath", "")

\* 1546-1561, called by the storage manager with its edited tree
handleSaveStorageTree(newTree) ==
  /\ Ready /\ mode = "storage_manager"
  /\ LET oldPaths == traverse(storageTree)
         newPaths == traverse(newTree)
         deleted(p) == inSeq(p, oldPaths) /\ ~inSeq(p, newPaths)
     IN filaments' = [i \in 1..Len(filaments) |->
                        IF Has(filaments[i], "locationPath") /\ deleted(filaments[i].locationPath)
                        THEN locationCleared(filaments[i]) ELSE filaments[i]]
  /\ storageTree' = newTree
  /\ mode' = "list"
  /\ tree' = <<>> /\ op' = Unmounted
  /\ isDirty' = TRUE
  /\ hasUnsavedChanges' = TRUE
  /\ UNCHANGED <<appStatus, printers, idCounters, currentFilamentId, locationFilter, app_data,
                 everIssued, printedLabel, nAlloc, allocVars, migVars>>

\* 1563-1576, called by the printer manager with its edited list
\* 1568: { ...f, status: 'Angebrochen', assignedPrinterId: undefined }
printerNotReset(f) == f
printerReset(f) == takenOffPrinter(f)

\* 1563-1576, called by the printer manager with its edited list
handleSavePrinters(newPrinters) ==
  /\ Ready /\ mode = "printer_manager"
  /\ LET kept(id) == \E j \in 1..Len(newPrinters) : newPrinters[j].id = id
     IN filaments' = [i \in 1..Len(filaments) |->
                        IF /\ Has(filaments[i], "assignedPrinterId")
                           /\ filaments[i].assignedPrinterId # ""
                           /\ \E k \in 1..Len(printers) :
                                /\ printers[k].id = filaments[i].assignedPrinterId
                                /\ ~kept(printers[k].id)
                        THEN printerReset(filaments[i]) ELSE filaments[i]]
  /\ printers' = newPrinters
  /\ mode' = "list"
  /\ isDirty' = TRUE
  /\ hasUnsavedChanges' = TRUE
  /\ UNCHANGED <<appStatus, storageTree, idCounters, currentFilamentId, locationFilter, app_data,
                 everIssued, printedLabel, nAlloc, allocVars, migVars, mgrVars>>

(***************************************************************************)
(* The StorageManager component (src/index.tsx 907-1002)                   *)
(*                                                                         *)
(* A node is [name, path, children], children being a sequence of nodes.   *)
(***************************************************************************)
MaxNodes == 4      \* nodes of the tree edited in the storage manager
MaxEdits == 4      \* edits made in the storage manager in a run

RECURSIVE countNodes(_)
countNodes(nodes) ==
  IF nodes = <<>> THEN 0
  ELSE 1 + countNodes(Head(nodes).children) + countNodes(Tail(nodes))

\* 915: path ? `${path} / ${name}` : name
childPath(path, name) == IF path # "" THEN path \o " / " \o name ELSE name
newNodeOf(path, name) == [name |-> name, path |-> childPath(path, name), children |-> <<>>]

\* 919-925: the first node with the path, in the order of the for loops,
\* gets the new node as its last child; found tells whether there was one
RECURSIVE findAndAdd(_, _, _)
addedHere(node, newNode) == [node EXCEPT !.children = Append(node.children, newNode)]
addedBelow(node, inner, rest) ==
  IF inner.found
  THEN [found |-> TRUE, nodes |-> <<[node EXCEPT !.children = inner.nodes]>> \o rest.before]
  ELSE [found |-> rest.after.found, nodes |-> <<node>> \o rest.after.nodes]
findAndAdd(nodes, path, newNode) ==
  IF nodes = <<>> THEN [found |-> FALSE, nodes |-> <<>>]
  ELSE IF Head(nodes).path = path
       THEN [found |-> TRUE, nodes |-> <<addedHere(Head(nodes), newNode)>> \o Tail(nodes)]
       ELSE addedBelow(Head(nodes), findAndAdd(Head(nodes).children, path, newNode),
                       [before |-> Tail(nodes), after |-> findAndAdd(Tail(nodes), path, newNode)])

\* 914-928: the tree handleAdd passes to setTree
treeAfterAdd(nodes, path, name) ==
  IF path = "" THEN Append(nodes, newNodeOf(path, name))
  ELSE findAndAdd(nodes, path, newNodeOf(path, name)).nodes

\* 935
RECURSIVE findAndDelete(_, _)
findAndDelete(nodes, p) ==
  IF nodes = <<>> THEN <<>>
  ELSE IF Head(nodes).path = p THEN findAndDelete(Tail(nodes), p)
  ELSE <<[Head(nodes) EXCEPT !.children = findAndDelete(Head(nodes).children, p)]>>
       \o findAndDelete(Tail(nodes), p)

\* 935: the paths of the nodes that findAndDelete leaves out, the nodes with
\* the path p and the nodes below them
RECURSIVE droppedPaths(_, _)
droppedPaths(nodes, p) ==
  IF nodes = <<>> THEN {}
  ELSE (IF Head(nodes).path = p
        THEN {traverse(<<Head(nodes)>>)[i] : i \in 1..Len(traverse(<<Head(nodes)>>))}
        ELSE droppedPaths(Head(nodes).children, p))
       \cup droppedPaths(Tail(nodes), p)

\* p.lastIndexOf(' / '), 0 when there is none
RECURSIVE lastIndexOf(_, _)
lastIndexOf(s, sub) ==
  IF Len(s) < Len(sub) THEN 0
  ELSE IF SubSeq(s, Len(s) - Len(sub) + 1, Len(s)) = sub THEN Len(s) - Len(sub) + 1
  ELSE lastIndexOf(SubSeq(s, 1, Len(s) - 1), sub)
\* 947
parentPathOf(p) == IF includes(p, " / ") THEN SubSeq(p, 1, lastIndexOf(p, " / ") - 1) ELSE ""

\* new RegExp(`^${pattern}`) applied at the start of s: the length of the
\* match, -1 when there is none.  The patterns are made of letters, digits,
\* ' ', '/' and '+': a character stands for itself, and followed by '+' for
\* one or more of itself, as many as the rest of the pattern allows.
NoMatch == -1
RECURSIVE matchLen(_, _)
RECURSIVE matchRun(_, _, _, _)
RECURSIVE runLength(_, _)
runLength(c, s) == IF s # "" /\ Head(s) = c THEN 1 + runLength(c, Tail(s)) ELSE 0
matchThen(k, r) == IF r = NoMatch THEN NoMatch ELSE k + r
matchRun(c, rest, s, k) ==
  IF k = 0 THEN NoMatch
  ELSE IF matchLen(rest, SubSeq(s, k + 1, Len(s))) # NoMatch
       THEN k + matchLen(rest, SubSeq(s, k + 1, Len(s)))
       ELSE matchRun(c, rest, s, k - 1)
matchLen(pattern, s) ==
  IF pattern = "" THEN 0
  ELSE IF Len(pattern) >= 2 /\ CharAt(pattern, 2) = "+"
       THEN matchRun(Head(pattern), SubSeq(pattern, 3, Len(pattern)), s, runLength(Head(pattern), s))
       ELSE IF s # "" /\ Head(s) = Head(pattern)
            THEN matchThen(1, matchLen(Tail(pattern), Tail(s)))
            ELSE NoMatch

\* 955: child.path.replace(new RegExp(`^${oldParentPath}`), newParentPath),
\* for a newParentPath without '$'
replaceRegExpPrefix(s, oldParentPath, newParentPath) ==
  IF matchLen(oldParentPath, s) = NoMatch THEN s
  ELSE newParentPath \o SubSeq(s, matchLen(oldParentPath, s) + 1, Len(s))

\* 953-958
RECURSIVE updateChildPaths(_, _, _)
updateChildPaths(children, oldParentPath, newParentPath) ==
  [i \in 1..Len(children) |->
     [children[i] EXCEPT
        !.path = replaceRegExpPrefix(children[i].path, oldParentPath, newParentPath),
        !.children = updateChildPaths(children[i].children, oldParentPath, newParentPath)]]

\* 946-960: the node found, renamed
renamedNode(node, p, newName) ==
  [name |-> newName,
   path |-> childPath(parentPathOf(p), newName),
   children |-> updateChildPaths(node.children, node.path, childPath(parentPathOf(p), newName))]

\* 944-965
RECURSIVE findAndRename(_, _, _)
renamedBelow(node, inner, rest) ==
  IF inner.found
  THEN [found |-> TRUE, nodes |-> <<[node EXCEPT !.children = inner.nodes]>> \o rest.before]
  ELSE [found |-> rest.after.found, nodes |-> <<node>> \o rest.after.nodes]
findAndRename(nodes, p, newName) ==
  IF nodes = <<>> THEN [found |-> FALSE, nodes |-> <<>>]
  ELSE IF Head(nodes).path = p
       THEN [found |-> TRUE, nodes |-> <<renamedNode(Head(nodes), p, newName)>> \o Tail(nodes)]
       ELSE renamedBelow(Head(nodes), findAndRename(Head(nodes).children, p, newName),
                         [before |-> Tail(nodes), after |-> findAndRename(Tail(nodes), p, newName)])

mgrFrame == <<appVars, allocVars, migVars>>
Mounted == Ready /\ mode = "storage_manager"

\* 910-929; name is what the prompt returned, '' when it was cancelled
handleAdd(path, name) ==
  /\ Mounted
  /\ countNodes(tree) < MaxNodes /\ op.n < MaxEdits
  /\ IF name = "" THEN UNCHANGED <<tree, op>>                            \* 912
     ELSE /\ tree' = treeAfterAdd(tree, path, name)
          /\ op' = [kind |-> "add", n |-> op.n + 1, path |-> path, name |-> name,
                    before |-> tree, removed |-> op.removed]
  /\ UNCHANGED mgrFrame

\* 931-937
handleDelete(path, confirmed) ==
  /\ Mounted
  /\ op.n < MaxEdits
  /\ IF ~confirmed THEN UNCHANGED <<tree, op>>                           \* 932
     ELSE /\ tree' = findAndDelete(tree, path)
          /\ op' = [kind |-> "remove", n |-> op.n + 1, path |-> path, before |-> tree,
                    removed |-> op.removed \cup droppedPaths(tree, path)]
  /\ UNCHANGED mgrFrame

\* 939-968; newName is what the prompt returned
handleRename(path, oldName, newName) ==
  /\ Mounted
  /\ op.n < MaxEdits
  /\ IF newName = "" \/ newName = oldName THEN UNCHANGED <<tree, op>>    \* 941
     ELSE /\ tree' = findAndRename(tree, path, newName).nodes
          /\ op' = [kind |-> "rename", n |-> op.n + 1, path |-> path, name |-> newName,
                    before |-> tree, removed |-> op.removed]
  /\ UNCHANGED mgrFrame

(***************************************************************************)
(* SpecTree: the storage manager, opened on the empty tree of a new list,  *)
(* with its add, rename and delete buttons                                 *)
(***************************************************************************)
NodeNames   == {"Shelf1", "BoxA", "BoxA2", "Bin1"}
RenameNames == {"BoxB", "B+"}
Cancelled   == ""

\* the nodes in the order they are rendered (970-985), with their depth
RECURSIVE flatten(_, _)
flatten(nodes, depth) ==
  IF nodes = <<>> THEN <<>>
  ELSE <<[name |-> Head(nodes).name, path |-> Head(nodes).path, depth |-> depth]>>
       \o flatten(Head(nodes).children, depth + 1) \o flatten(Tail(nodes), depth)
rendered == {flatten(tree, 0)[i] : i \in 1..Len(flatten(tree, 0))}

\* the tree of scenario C: Shelf1 holding BoxA, which holds Bin1, and BoxA2
Leaf(path, name) == newNodeOf(path, name)
ScenarioTree ==
  <<[name |-> "Shelf1", path |-> "Shelf1",
     children |-> <<[name |-> "BoxA", path |-> "Shelf1 / BoxA",
                     children |-> <<Leaf("Shelf1 / BoxA", "Bin1")>>],
                    Leaf("Shelf1", "BoxA2")>>]>>

\* the storage manager was opened on the stored tree of a list without
\* items: the empty tree of a new list, or the tree of scenario C, made in
\* an earlier session of the manager by adding its four nodes
InitTree ==
  /\ appStatus = "READY"
  /\ filaments = <<>>
  /\ storageTree \in {<<>>, ScenarioTree}
  /\ printers = <<>>
  /\ idCounters = EmptyObject
  /\ mode = "storage_manager"
  /\ currentFilamentId = NoItem
  /\ hasUnsavedChanges = FALSE
  /\ isDirty = FALSE
  /\ locationFilter = ""
  /\ app_data = stringify(bundleOf(<<>>, storageTree, EmptyObject, <<>>))
  /\ everIssued = <<>>
  /\ printedLabel = EmptyObject
  /\ nAlloc = 0
  /\ AllocInitial /\ MigInitial
  /\ tree = storageTree
  /\ op = NoOp

NextTree ==
  \/ \E name \in NodeNames \cup {Cancelled} : handleAdd("", name)
  \/ \E n \in rendered, name \in NodeNames \cup {Cancelled} : handleAdd(n.path, name)
  \/ \E n \in rendered, newName \in RenameNames \cup {Cancelled} :
       handleRename(n.path, n.name, newName)
  \/ \E n \in rendered, confirmed \in BOOLEAN : handleDelete(n.path, confirmed)
SpecTree == InitTree /\ [][NextTree]_vars

(***************************************************************************)
(* Properties of the storage manager                                       *)
(***************************************************************************)
\* s with its leading oldParentPath, taken literally, replaced
literalPrefixReplaced(s, oldParentPath, newParentPath) ==
  IF SubSeq(s, 1, Len(oldParentPath)) = oldParentPath
  THEN newParentPath \o SubSeq(s, Len(oldParentPath) + 1, Len(s)) ELSE s
\* the first node with the path, in the order of rendering
FirstAt(flat, path) ==
  CHOOSE i \in 1..Len(flat) : flat[i].path = path /\ \A j \in 1..(i-1) : flat[j].path # path
\* the last node of the subtree of the k-th node
SubtreeEnd(flat, k) ==
  CHOOSE e \in k..Len(flat) :
    /\ \A i \in (k+1)..e : flat[i].depth > flat[k].depth
    /\ e = Len(flat) \/ flat[e + 1].depth <= flat[k].depth
\* the children of the first node with the path, the roots for ''
RECURSIVE ChildrenAt(_, _)
ChildrenAt(nodes, path) ==
  IF path = "" THEN nodes
  ELSE IF nodes = <<>> THEN <<>>
  ELSE IF Head(nodes).path = path THEN Head(nodes).children
  ELSE IF inSeq(path, traverse(Head(nodes).children)) THEN ChildrenAt(Head(nodes).children, path)
  ELSE ChildrenAt(Tail(nodes), path)

\* C16: adding a name under a parent is refused when the computed path is
\* already in the tree, which is then unchanged; otherwise the new node is
\* the last of the parent's children, after the ones that were there.
AddMade == op.kind = "add"
C16_AddRefusesDuplicatePath ==
  AddMade =>
    IF inSeq(childPath(op.path, op.name), traverse(op.before))
    THEN tree = op.before
    ELSE /\ ChildrenAt(tree, op.path)
              = Append(ChildrenAt(op.before, op.path), newNodeOf(op.path, op.name))
         /\ countNodes(tree) = countNodes(op.before) + 1

\* C17: no two nodes of the tree have the same path.
C17_PathsUnique ==
  \A i, j \in 1..Len(traverse(tree)) : i # j => traverse(tree)[i] # traverse(tree)[j]

\* C18: the path of a root is its name, the path of any other node is the
\* path of its parent, the separator and its name.
RECURSIVE PathsComposed(_, _)
PathsComposed(nodes, parentPath) ==
  \A i \in 1..Len(nodes) :
    /\ nodes[i].path = childPath(parentPath, nodes[i].name)
    /\ PathsComposed(nodes[i].children, nodes[i].path)
C18_PathIsParentPathAndName == PathsComposed(tree, "")

\* C19: a rename gives the node its new name and path, gives every node of
\* its subtree its path with the old path replaced by the new one at the
\* front, keeps depths and names below the node, and leaves all other nodes
\* as they were: with Shelf1 holding BoxA (holding Bin1) and BoxA2, renaming
\* Shelf1 / BoxA to BoxB gives Shelf1 / BoxB, Shelf1 / BoxB / Bin1 and
\* leaves Shelf1 / BoxA2.
RenameMade == op.kind = "rename"
ScenarioC ==
  <<"Shelf1", "Shelf1 / BoxA", "Shelf1 / BoxA / Bin1", "Shelf1 / BoxA2">>
IsScenarioC ==
  /\ RenameMade
  /\ traverse(op.before) = ScenarioC
  /\ op.path = "Shelf1 / BoxA" /\ op.name = "BoxB"
C19_RenameRewritesSubtree ==
  /\ RenameMade =>
       LET B == flatten(op.before, 0)
           A == flatten(tree, 0)
           k == FirstAt(B, op.path)
           e == SubtreeEnd(B, k)
           newPath == childPath(parentPathOf(op.path), op.name)
       IN /\ Len(A) = Len(B)
          /\ \A i \in 1..Len(B) :
               /\ A[i].depth = B[i].depth
               /\ i = k => A[i].name = op.name /\ A[i].path = newPath
               /\ i \in (k+1)..e =>
                    /\ A[i].name = B[i].name
                    /\ A[i].path = literalPrefixReplaced(B[i].path, op.path, newPath)
               /\ i \notin k..e => A[i] = B[i]
  /\ IsScenarioC =>
       traverse(tree) = <<"Shelf1", "Shelf1 / BoxB", "Shelf1 / BoxB / Bin1", "Shelf1 / BoxA2">>

(***************************************************************************)
(* What the user enters                                                    *)
(***************************************************************************)
FormTypes  == {"PLA", "ABS"}
FormColors == {"Red", "Blue"}
Weights    == {800}
NodeA      == [name |-> "A", path |-> "A", children |-> <<>>]
EditedTrees == {<<>>, <<NodeA>>}
EditedPrinterLists ==
  {<<>>, <<[id |-> "p1", name |-> "Neuer Drucker", manufacturer |-> "", nozzle |-> "0.4mm",
            filamentDiameter |-> DefaultFilamentDiameter]>>}

itemIds == {filaments[i].id : i \in 1..Len(filaments)}
\* the notes that tell the next new item from the others
NewNotes == "n" \o toString(nAlloc + 1)
\* the places and printers the form offers (290-291)
OfferedPaths == {""} \cup {traverse(storageTree)[i] : i \in 1..Len(traverse(storageTree))}
OfferedStatus ==
  {[status |-> "Originalverpackt", printerId |-> ""]}
    \cup {[status |-> "Auf Drucker", printerId |-> printers[i].id] : i \in 1..Len(printers)}

\* 1710: the item the form of an edit is opened on
Edited == filaments[firstWithId(filaments, currentFilamentId)]

\* 328-333: the printers no item other than the one in the form is on
usedPrinterIds(initialId) ==
  {filaments[i].assignedPrinterId :
     i \in {j \in 1..Len(filaments) :
              /\ filaments[j].id # initialId
              /\ Has(filaments[j], "assignedPrinterId")
              /\ filaments[j].assignedPrinterId # ""}}
availablePrinters(initialId) ==
  {printers[i].id : i \in 1..Len(printers)} \ usedPrinterIds(initialId)
\* 405-410: the option of the printer the item in the form is on
currentPrinter(initialData) ==
  IF Has(initialData, "assignedPrinterId") /\ initialData.assignedPrinterId # ""
  THEN {printers[i].id : i \in 1..Len(printers)} \cap {initialData.assignedPrinterId}
  ELSE {}
\* 397-411: the status and the printer the form of an existing item offers
OfferedToEdit(initialData) ==
  {[status |-> st, printerId |-> ""] : st \in {"Originalverpackt", "Angebrochen"}}
    \cup {[status |-> "Auf Drucker", printerId |-> id] :
            id \in availablePrinters(initialData.id) \cup currentPrinter(initialData)}

\* PrinterManager (1004-1030): the lists it passes to onSave, made of the
\* printers shown with some deleted (1019-1022) and one added (1007-1017)
PrinterIds == {"p1", "p2"}
newPrinter(id) ==
  [id |-> id, name |-> "Neuer Drucker", manufacturer |-> "", nozzle |-> "0.4mm",
   filamentDiameter |-> DefaultFilamentDiameter]
printersKept(K) == SelectSeq(printers, LAMBDA q : q.id \in K)
PrinterEdits ==
  {printersKept(K) : K \in SUBSET PrinterIds}
    \cup {Append(printersKept(K), newPrinter(id)) :
            K \in SUBSET PrinterIds,
            id \in PrinterIds \ {printers[i].id : i \in 1..Len(printers)}}

\* the form of a new item (also of a copy, 1432-1440) is submitted
SubmitNew(type, mfgColor, st, locationPath) ==
  /\ mode = "add"
  /\ saveFilament(formData(type, mfgColor, "", st.status, st.printerId, locationPath,
                           1200, NewNotes), TRUE)

\* the form of the item shown is submitted with its type, colour, status
\* and place as entered and the other fields as they were
SubmitEdit(type, mfgColor, st, locationPath, confirmed) ==
  /\ mode = "edit" /\ hasId(filaments, currentFilamentId)
  /\ LET o == filaments[firstWithId(filaments, currentFilamentId)]
     IN saveFilament(Put(formData(type, mfgColor, o.madeDate, st.status, st.printerId,
                                  locationPath, o.totalWeight, o.notes),
                         "id", o.id), confirmed)

\* the same, the status, the printer and the place left as they were
SubmitEditKeeping(type, mfgColor, confirmed) ==
  /\ mode = "edit" /\ hasId(filaments, currentFilamentId)
  /\ LET o == filaments[firstWithId(filaments, currentFilamentId)]
     IN SubmitEdit(type, mfgColor,
                   [status |-> o.status,
                    printerId |-> IF Has(o, "assignedPrinterId") THEN o.assignedPrinterId ELSE ""],
                   o.locationPath, confirmed)

Unassigned == [status |-> "Originalverpackt", printerId |-> ""]

(***************************************************************************)
(* SpecCore: new list, add, copy, edit, delete, persist and reload         *)
(***************************************************************************)
InitApp == AppInitial /\ AllocInitial /\ MigInitial /\ MgrInitial

NextCore ==
  \/ LoadEffect("u")
  \/ PersistEffect
  \/ ReloadPage
  \/ \E confirmed \in BOOLEAN : handleCreateNew(confirmed)
  \/ handleStartAdd
  \/ \E id \in itemIds : handleViewDetail(id)
  \/ \E id \in itemIds : handleStartEdit(id)
  \/ \E id \in itemIds : handleCopy(id)
  \/ handleGoToOverview
  \/ \E t \in FormTypes, c \in FormColors : SubmitNew(t, c, Unassigned, "")
  \/ \E t \in FormTypes, c \in FormColors, confirmed \in BOOLEAN :
       SubmitEdit(t, c, Unassigned, "", confirmed)
  \/ \E id \in itemIds, confirmed \in BOOLEAN : deleteFilament(id, confirmed)
SpecCore == InitApp /\ [][NextCore]_vars

(***************************************************************************)
(* SpecApp: SpecCore with weight updates, the storage manager, the printer *)
(* manager, and new items put at places and on printers; one colour        *)
(***************************************************************************)
NextApp ==
  \/ \E seed \in UuidSeeds : LoadEffect(seed)
  \/ PersistEffect
  \/ ReloadPage
  \/ \E confirmed \in BOOLEAN : handleCreateNew(confirmed)
  \/ handleStartAdd
  \/ \E id \in itemIds : handleViewDetail(id)
  \/ \E id \in itemIds : handleStartEdit(id)
  \/ \E id \in itemIds : handleCopy(id)
  \/ handleGoToOverview
  \/ \E m \in {"storage_manager", "printer_manager"} : openManager(m)
  \/ \E t \in FormTypes, st \in OfferedStatus, l \in OfferedPaths :
       SubmitNew(t, "Red", st, l)
  \/ \E t \in FormTypes, confirmed \in BOOLEAN : SubmitEditKeeping(t, "Red", confirmed)
  \/ \E id \in itemIds, confirmed \in BOOLEAN : deleteFilament(id, confirmed)
  \/ \E id \in itemIds, w \in Weights : handleUpdateWeight(id, w)
  \/ \E newTree \in EditedTrees : handleSaveStorageTree(newTree)
  \/ \E newPrinters \in EditedPrinterLists : handleSavePrinters(newPrinters)
SpecApp == InitApp /\ [][NextApp]_vars

(***************************************************************************)
(* SpecStore: a list with the tree of scenario C; items are put at its     *)
(* places, moved and deleted, the storage manager is opened, edited and    *)
(* saved                                                                   *)
(***************************************************************************)
StoreNames   == {"BoxA"}
StoreRenames == {"BoxB"}

InitStore ==
  /\ appStatus = "READY"
  /\ filaments = <<>>
  /\ storageTree = ScenarioTree
  /\ printers = <<>>
  /\ idCounters = EmptyObject
  /\ mode = "list"
  /\ currentFilamentId = NoItem
  /\ hasUnsavedChanges = FALSE
  /\ isDirty = FALSE
  /\ locationFilter = ""
  /\ app_data = stringify(bundleOf(<<>>, storageTree, EmptyObject, <<>>))
  /\ everIssued = <<>>
  /\ printedLabel = EmptyObject
  /\ nAlloc = 0
  /\ AllocInitial /\ MigInitial /\ MgrInitial

NextStore ==
  \/ handleStartAdd
  \/ \E l \in OfferedPaths : SubmitNew("PLA", "Red", Unassigned, l)
  \/ mode = "detail" /\ handleGoToOverview
  \/ \E id \in itemIds : handleViewDetail(id)
  \/ \E id \in itemIds : handleStartEdit(id)
  \/ \E l \in OfferedPaths : SubmitEdit("PLA", "Red", Unassigned, l, TRUE)
  \/ \E id \in itemIds : deleteFilament(id, TRUE)
  \/ openManager("storage_manager")
  \/ \E n \in rendered, name \in StoreNames : handleAdd(n.path, name)
  \/ \E n \in rendered, newName \in StoreRenames : handleRename(n.path, n.name, newName)
  \/ \E n \in rendered, confirmed \in BOOLEAN : handleDelete(n.path, confirmed)
  \/ handleSaveStorageTree(tree)
  \/ PersistEffect
SpecStore == InitStore /\ [][NextStore]_vars

\* a step of handleDelete that removed, a step of handleSaveStorageTree
DeleteStep == op'.kind = "remove" /\ op'.n = op.n + 1
SaveStep   == mode = "storage_manager" /\ mode' = "list"
\* s without its elements k..e
Without(s, k, e) == SubSeq(s, 1, k - 1) \o SubSeq(s, e + 1, Len(s))

\* C20: a remove deletes the node and its whole subtree and nothing else,
\* and once the tree is saved every item whose locationPath was one of the
\* paths removed has an empty locationPath while all other items are as
\* they were: removing Shelf1 / BoxA removes Shelf1 / BoxA and
\* Shelf1 / BoxA / Bin1 and clears the items stored at either.
RemovedExactly ==
  /\ flatten(tree', 0)
       = Without(flatten(tree, 0), FirstAt(flatten(tree, 0), op'.path),
                 SubtreeEnd(flatten(tree, 0), FirstAt(flatten(tree, 0), op'.path)))
  /\ traverse(tree) = ScenarioC /\ op'.path = "Shelf1 / BoxA"
       => /\ droppedPaths(tree, op'.path) = {"Shelf1 / BoxA", "Shelf1 / BoxA / Bin1"}
          /\ traverse(tree') = <<"Shelf1", "Shelf1 / BoxA2">>
RemovedCleared ==
  /\ Len(filaments') = Len(filaments)
  /\ \A i \in 1..Len(filaments) :
       filaments'[i] = IF filaments[i].locationPath \in op.removed
                       THEN Put(filaments[i], "locationPath", "")
                       ELSE filaments[i]
C20_RemoveClearsItems ==
  [][(DeleteStep => RemovedExactly) /\ (SaveStep => RemovedCleared)]_vars

\* items, counters, tree and printers are left as they were
BundleUnchanged ==
  UNCHANGED <<filaments, idCounters, storageTree, printers>>

(***************************************************************************)
(* SpecView: a list with the tree of scenario C; items are put at its      *)
(* places, the list is filtered by place                                   *)
(***************************************************************************)
ViewFilters == {"", Unsorted}
NextView ==
  \/ handleStartAdd
  \/ \E l \in OfferedPaths : SubmitNew("PLA", "Red", Unassigned, l)
  \/ PersistEffect
  \/ handleGoToOverview
  \/ \E id \in itemIds : handleViewDetail(id)
  \/ \E l \in OfferedPaths \cup ViewFilters : setLocationFilter(l)
  \/ \E l \in OfferedPaths : handleSelectLocation(l)
SpecView == InitStore /\ [][NextView]_vars

\* C23: with the place L selected as the filter, the list shows an item iff
\* its locationPath is L or lies under L by whole segments, so that an item
\* at a place whose name begins with the name of L is not shown.
UnderBySegments(path, L) == path = L \/ startsWith(path, L \o " / ")
C23_FilterBySegments ==
  locationFilter \notin ViewFilters =>
    \A i \in 1..Len(filaments) :
      inSeq(filaments[i], filteredFilaments)
        <=> UnderBySegments(filaments[i].locationPath, locationFilter)

(***************************************************************************)
(* SpecScan: a list with the tree of scenario C; items are put at its      *)
(* places, codes are scanned in every view                                 *)
(***************************************************************************)
ScanTexts ==
  {"FMT_SPOOL::PLA-0001-001", "FMT_SPOOL::PLA-0009-001", "FMT_LOCATION::Shelf1 / BoxA",
   "FMT_LOCATION::Attic", "FMT_LOCATION::", "FMT_LOCATION::Shelf1::BoxA", "FMT_PRINTER::p1",
   "PLA-0001-001", "::"}

NextScan ==
  \/ handleStartAdd
  \/ \E l \in OfferedPaths : SubmitNew("PLA", "Red", Unassigned, l)
  \/ PersistEffect
  \/ handleGoToOverview
  \/ \E scannedText \in ScanTexts : handleGlobalScan(scannedText)
SpecScan == InitStore /\ [][NextScan]_vars

\* C27: a scanned FMT_SPOOL::id opens the detail view of the item with that
\* id iff the list has it, a scanned FMT_LOCATION::path sets the location
\* filter iff the path is a path of the tree or is empty; any other kind, a
\* text without '::' and a payload that is not known leave the view mode,
\* the current item, the location filter and the bundle as they were.
HasKind(text) == includes(text, "::")
Kind(text) == SubSeq(text, 1, indexOf(text, "::") - 1)
Payload(text) == SubSeq(text, indexOf(text, "::") + 2, Len(text))
PathSet == {traverse(storageTree)[i] : i \in 1..Len(traverse(storageTree))}
SpoolKnown(text) == HasKind(text) /\ Kind(text) = "FMT_SPOOL" /\ Payload(text) \in itemIds
PlaceKnown(text) ==
  HasKind(text) /\ Kind(text) = "FMT_LOCATION" /\ Payload(text) \in PathSet \cup {""}
C27_ScanNavigatesToKnownTarget ==
  [][\A text \in ScanTexts :
       handleGlobalScan(text)
         => /\ BundleUnchanged
            /\ IF SpoolKnown(text)
               THEN mode' = "detail" /\ currentFilamentId' = Payload(text)
                    /\ UNCHANGED locationFilter
               ELSE IF PlaceKnown(text) THEN locationFilter' = Payload(text)
               ELSE UNCHANGED <<mode, currentFilamentId, locationFilter>>]_vars

\* the place of a scanned label is the filter, and the scan of the label of
\* the first item has opened it, the second item being the last one made
C27_Witness ==
  /\ mode = "detail" /\ Len(filaments) = 2
  /\ currentFilamentId = "PLA-0001-001" /\ filaments[1].id = "PLA-0001-001"
  /\ locationFilter = "Shelf1 / BoxA"

(***************************************************************************)
(* SpecPrinters: a new list; printers are added and deleted in the printer *)
(* manager, items are added, copied and edited, on and off the printers    *)
(***************************************************************************)
NextPrinters ==
  \/ LoadEffect("u")
  \/ handleCreateNew(TRUE)
  \/ PersistEffect
  \/ openManager("printer_manager")
  \/ \E newPrinters \in PrinterEdits : handleSavePrinters(newPrinters)
  \/ handleStartAdd
  \/ \E st \in OfferedStatus : SubmitNew("PLA", "Red", st, "")
  \/ \E id \in itemIds : handleViewDetail(id)
  \/ \E id \in itemIds : handleStartEdit(id)
  \/ \E id \in itemIds : handleCopy(id)
  \/ handleGoToOverview
  \/ /\ mode = "edit" /\ hasId(filaments, currentFilamentId)
     /\ \E t \in FormTypes : \E st \in OfferedToEdit(Edited) : SubmitEdit(t, "Red", st, "", TRUE)
SpecPrinters == InitApp /\ [][NextPrinters]_vars

OnPrinter(f) == Has(f, "assignedPrinterId") /\ f.assignedPrinterId # ""
IdsOf(ps) == {ps[i].id : i \in 1..Len(ps)}

\* C28: after a printer list is saved no item is on a printer that was
\* deleted: every item that was on a deleted printer has no printer and the
\* status 'Angebrochen', and all other items are as they were.
AllPrinterLists ==
  {<<>>} \cup {<<newPrinter(a)>> : a \in PrinterIds}
    \cup {<<newPrinter(a), newPrinter(b)>> : a, b \in PrinterIds}
C28_DeletedPrinterReleasesItems ==
  [][\A newPrinters \in AllPrinterLists :
       handleSavePrinters(newPrinters)
         => /\ Len(filaments') = Len(filaments)
            /\ \A i \in 1..Len(filaments) :
                 IF OnPrinter(filaments[i])
                      /\ filaments[i].assignedPrinterId \in IdsOf(printers) \ IdsOf(newPrinters)
                 THEN /\ ~Has(filaments'[i], "assignedPrinterId")
                      /\ filaments'[i].status = "Angebrochen"
                      /\ Del(filaments'[i], "status")
                           = Del(Del(filaments[i], "status"), "assignedPrinterId")
                 ELSE filaments'[i] = filaments[i]
            /\ \A i \in 1..Len(filaments') :
                 OnPrinter(filaments'[i]) => filaments'[i].assignedPrinterId \in IdsOf(printers')]_vars

\* the printer of the first item was deleted by a save of the printer list
\* that is not yet stored; the second item is still on its printer
C28_Witness ==
  /\ mode = "list" /\ hasUnsavedChanges /\ Len(filaments) = 2
  /\ app_data.present /\ Len(parse(app_data).filaments) = 2
  /\ OnPrinter(parse(app_data).filaments[1])
  /\ parse(app_data).filaments[1].assignedPrinterId \notin IdsOf(printers)
  /\ ~OnPrinter(filaments[1]) /\ filaments[1].status = "Angebrochen"
  /\ OnPrinter(filaments[2]) /\ filaments[2] = parse(app_data).filaments[2]

\* C29: no two items are on the same printer, after any sequence of forms
\* submitted for a new item, a copy, an edit and a confirmed edit of type
\* or colour.
C29_OneItemPerPrinter ==
  \A i, j \in 1..Len(filaments) :
    i # j /\ OnPrinter(filaments[i]) /\ OnPrinter(filaments[j])
      => filaments[i].assignedPrinterId # filaments[j].assignedPrinterId

\* a second item was made on the printer the first item was on, which took
\* the first item off it; the list is not yet stored
C29_Witness ==
  /\ mode = "detail" /\ hasUnsavedChanges /\ Len(filaments) = 2
  /\ app_data.present /\ Len(parse(app_data).filaments) = 1
  /\ OnPrinter(parse(app_data).filaments[1])
  /\ OnPrinter(filaments[2])
  /\ filaments[2].assignedPrinterId = parse(app_data).filaments[1].assignedPrinterId
  /\ ~OnPrinter(filaments[1]) /\ filaments[1].status = "Angebrochen"

\* C24: the list of all location paths offered as choices is the pre-order
\* of the tree, siblings in the order they were inserted.
C24_PathsInPreOrder == allLocationPaths = traverse(storageTree)

(***************************************************************************)
(* SpecImport: a new list or a stored one, items are added, files are      *)
(* imported                                                                *)
(***************************************************************************)
ImportedBundles ==
  {JsonNull, EmptyObject}
    \cup {b \in RawBundles :
            /\ DOMAIN b = {"filaments", "idCounters", "printers", "storageTree"}
            /\ Len(b.filaments) = 1
            /\ Has(b.idCounters, "typeCounters")
            /\ Has(b.printers[1], "id")}
ImportFiles == {Malformed} \cup {fileOf(b) : b \in ImportedBundles}

NextImport ==
  \/ LoadEffect("u")
  \/ PersistEffect
  \/ ReloadPage
  \/ \E confirmed \in BOOLEAN : handleCreateNew(confirmed)
  \/ handleStartAdd
  \/ SubmitNew("PLA", "Red", Unassigned, "")
  \/ \E file \in ImportFiles, confirmed \in BOOLEAN : handleFileChange(file, "v", confirmed)
SpecImport == InitApp /\ [][NextImport]_vars

\* C26: an import whose file fails to parse or to migrate, or that the user
\* declines, leaves items, tree, counters and printers as they were; a
\* confirmed one replaces the four together by what migrateData returns for
\* the file and leaves the write of the bundle pending; the write stores
\* the bundle in memory.
Imported(file, seed) ==
  /\ filaments' = migrateData(file.text, seed).filaments
  /\ storageTree' = migrateData(file.text, seed).storageTree
  /\ idCounters' = migrateData(file.text, seed).idCounters
  /\ printers' = migrateData(file.text, seed).printers
  /\ appStatus' = "READY" /\ hasUnsavedChanges'
RenameSaved == SaveStep /\ op.kind = "rename" /\ op.before = storageTree
RenameCascaded ==
  \A i \in 1..Len(filaments) :
    \A k \in FirstAt(flatten(op.before, 0), op.path)
                ..SubtreeEnd(flatten(op.before, 0), FirstAt(flatten(op.before, 0), op.path)) :
      filaments[i].locationPath = flatten(op.before, 0)[k].path
        => filaments'[i].locationPath = flatten(tree, 0)[k].path
C21_RenameCascadesToItems == [][RenameSaved => RenameCascaded]_vars

\* C22: every item's locationPath is empty or the path of a node of the
\* current tree, after any sequence of item add, edit and delete and of
\* sessions of the storage manager (add, rename, remove) ended by save.
C22_NoDanglingLocation ==
  \A i \in 1..Len(filaments) :
    filaments[i].locationPath = "" \/ inSeq(filaments[i].locationPath, traverse(storageTree))

\* a save of the storage manager, not yet persisted, cleared the place of
\* the first item, whose node was removed or renamed, and left the second
\* item at its place
C22_Witness ==
  /\ mode = "list" /\ hasUnsavedChanges /\ op.n > 0
  /\ Len(filaments) = 2 /\ Len(parse(app_data).filaments) = 2
  /\ parse(app_data).filaments[1].locationPath # ""
  /\ ~inSeq(parse(app_data).filaments[1].locationPath, traverse(storageTree))
  /\ filaments[1].locationPath = ""
  /\ filaments[2].locationPath # ""
  /\ filaments[2] = parse(app_data).filaments[2]

(***************************************************************************)
(* Properties of the App                                                   *)
(***************************************************************************)
\* C2: an item's id changes only when a confirmed edit changes its type or
\* its manufacturer colour: every item of the list carries the id it was
\* given when it was created or last re-identified.
C2_IdChangesOnlyByReidentification ==
  appStatus = "READY" =>
    \A i \in 1..Len(filaments) :
      /\ Has(printedLabel, filaments[i].notes)
      /\ filaments[i].id = printedLabel[filaments[i].notes]

\* C25: when the form of an existing item is submitted with another type or
\* manufacturer colour, nothing of the bundle changes unless the user
\* confirms; on confirmation the item, at its place in the list, gets the
\* id the allocator gives for the current counters, the old id is no longer
\* in the list, the other items are as they were and the counters are the
\* ones the allocator returned.
CoreChange(t, c) == Edited.type # t \/ Edited.manufacturerColor # c
Reidentified(t, c) ==
  /\ Len(filaments') = Len(filaments)
  /\ \A j \in 1..Len(filaments) :
       IF j = firstWithId(filaments, currentFilamentId)
       THEN /\ filaments'[j].id = generateNewIdAndUpdateCounters(t, c, idCounters).newId
            /\ filaments'[j].type = t /\ filaments'[j].manufacturerColor = c
       ELSE filaments'[j] = filaments[j]
  /\ ~hasId(filaments', Edited.id)
  /\ idCounters' = generateNewIdAndUpdateCounters(t, c, idCounters).updatedCounters
  /\ UNCHANGED <<storageTree, printers>>
C25_ReidentificationGated ==
  [][\A t \in FormTypes, c \in FormColors, confirmed \in BOOLEAN :
       SubmitEdit(t, c, Unassigned, "", confirmed) /\ CoreChange(t, c)
         => IF confirmed THEN Reidentified(t, c) ELSE BundleUnchanged]_vars

\* the first item made was re-identified: it carries the second id issued
C25_Witness ==
  /\ appStatus = "READY" /\ mode = "detail"
  /\ Len(filaments) = 1 /\ filaments[1].notes = "n1"
  /\ Len(everIssued) = 2 /\ everIssued[1] # everIssued[2]
  /\ filaments[1].id = everIssued[2] /\ currentFilamentId = everIssued[2]

\* C3: no two items of the list have the same id.
C3_IdsUniqueInBundle ==
  \A i, j \in 1..Len(filaments) : i # j => filaments[i].id # filaments[j].id

\* two items of one type in a list that was stored, loaded again and given
\* new ids by the migration, after an id was retired by a deletion or a
\* re-identification
C3_Witness ==
  /\ appStatus = "READY"
  /\ Has(idCounters, "version")
  /\ Len(filaments) = 2
  /\ filaments[1].type = filaments[2].type
  /\ Len(everIssued) >= 3
  /\ \E i \in 1..2 : filaments[i].id # printedLabel[filaments[i].notes]

\* C4: the counter of a type code stays above every spool number ever issued
\* for it, and no (type code, spool number) is issued twice.
TypePart(id)  == split(id, "-")[1]
SpoolPart(id) == parseInt(split(id, "-")[2])
C4_SpoolNumbersNeverReissued ==
  appStatus = "READY" =>
    /\ \A k \in 1..Len(everIssued) :
         /\ Has(idCounters, "typeCounters")
         /\ Has(idCounters.typeCounters, TypePart(everIssued[k]))
         /\ idCounters.typeCounters[TypePart(everIssued[k])].nextSpoolNum > SpoolPart(everIssued[k])
    /\ \A k, l \in 1..Len(everIssued) :
         k # l => \/ TypePart(everIssued[k]) # TypePart(everIssued[l])
                  \/ SpoolPart(everIssued[k]) # SpoolPart(everIssued[l])

\* C5: the idCounters of every bundle in localStorage carry the version
\* stamp, with the current value.
C5_StoredCountersCarryVersion ==
  app_data.present =>
    /\ Has(parse(app_data).idCounters, "version")
    /\ parse(app_data).idCounters.version = CurrentVersion

(***************************************************************************)
(* SpecAuto: lists are made, imported, changed, reset and loaded again.    *)
(* SpecAutoFair adds what React guarantees of the persist effect: effects  *)
(* run after every render that changed one of their dependencies (1348),   *)
(* so the effect is not left enabled for ever.  localStorage.setItem is    *)
(* taken not to raise.                                                     *)
(***************************************************************************)
AutoFiles == {Malformed, fileOf(EmptyObject)} \cup
  {fileOf(b) : b \in {x \in ImportedBundles \ {JsonNull, EmptyObject} :
                        /\ Has(x.filaments[1], "id")
                        /\ x.filaments[1].id = "ABS-0001-001"}}
NextAuto ==
  \/ LoadEffect("u")
  \/ PersistEffect
  \/ ReloadPage
  \/ \E confirmed \in BOOLEAN : handleCreateNew(confirmed)
  \/ \E confirmed \in BOOLEAN : handleReset(confirmed)
  \/ \E file \in AutoFiles : \E confirmed \in BOOLEAN : handleFileChange(file, "v", confirmed)
  \/ handleStartAdd
  \/ SubmitNew("PLA", "Red", Unassigned, "")
  \/ /\ \A i \in 1..Len(filaments) : Has(filaments[i], "id")
     /\ \E id \in itemIds : deleteFilament(id, TRUE)
  \/ openManager("printer_manager")
  \/ \E newPrinters \in {<<>>, <<newPrinter("p1")>>} : handleSavePrinters(newPrinters)
  \/ openManager("storage_manager")
  \/ tree = <<>> /\ handleAdd("", "BoxA")
  \/ handleSaveStorageTree(tree)
  \/ handleGoToOverview
SpecAuto == InitApp /\ [][NextAuto]_vars
SpecAutoFair == SpecAuto /\ WF_vars(PersistEffect)

Bundle == bundleOf(filaments, storageTree, idCounters, printers)
Saved == appStatus = "READY" /\ ~hasUnsavedChanges /\ app_data = stringify(Bundle)

\* a change of the bundle of a READY app, and the entry into READY by a new
\* list or an import, set the unsaved flag
MutationMarked ==
  /\ appStatus = "READY" /\ appStatus' = "READY" /\ Bundle' # Bundle => hasUnsavedChanges'
  /\ appStatus = "FIRST_RUN" /\ appStatus' = "READY" => hasUnsavedChanges'
  /\ \A file \in AutoFiles :
       handleFileChange(file, "v", TRUE) /\ ~importFails(file)
         => appStatus' = "READY" /\ hasUnsavedChanges'
\* the item app_data changes only by the write of the bundle in memory,
\* which clears the flag, and by its removal on a reset
WriteIsCurrent ==
  app_data' # app_data =>
    \/ /\ appStatus = "READY" /\ hasUnsavedChanges
       /\ app_data' = stringify(Bundle) /\ Bundle' = Bundle
       /\ appStatus' = "READY" /\ ~hasUnsavedChanges'
    \/ /\ appStatus = "READY" /\ appStatus' = "FIRST_RUN" /\ ~app_data'.present
LoadAndResetNeverWrite ==
  /\ appStatus = "LOADING" => app_data' = app_data
  /\ handleReset(TRUE) => ~app_data'.present /\ appStatus' = "FIRST_RUN"

====
